---------------------------- MODULE Spec2Model ----------------------------
(***************************************************************************)
(* Model of aider's MarkdownEditorCoder                                    *)
(* (src/aider/coders/markdown_editor_coder.py): the classification         *)
(* registry, the whole-file fence scanner, the edit extractor and filter   *)
(* (get_edits) and the edit applicator (apply_edits); of the API server    *)
(* (src/aider/api.py): the requests of POST /command and APIIO; and of     *)
(* the browser interface (src/aider/gui.py): BrowserIO.confirm_ask and     *)
(* the runs of the GUI script around a confirmation prompt.                *)
(*                                                                         *)
(* Text.  A Python str is a sequence of atoms.  The characters the code    *)
(* inspects one by one are atoms of their own: the backtick (BT), "*",     *)
(* "#", ":", " ", "/", "." and "\n".  Every other atom is a run of          *)
(* characters none of                                                      *)
(* which the code inspects ("a.md", "x", "<<<<<<< SEARCH"); AtomLen gives  *)
(* the number of characters it stands for.  Two strs are equal exactly     *)
(* when their atom sequences are.                                          *)
(*                                                                         *)
(* None.  An optional value is a sequence of length 0 (None) or 1.         *)
(***************************************************************************)
EXTENDS Integers, Sequences, FiniteSets, TLC

VARIABLES
    \* ---- MarkdownEditorCoder / Coder fields
    editable_files,           \* self.editable_files: set of absolute paths
    context_files,            \* self.context_files: set of absolute paths
    abs_fnames,               \* self.abs_fnames
    abs_read_only_fnames,     \* self.abs_read_only_fnames
    shell_commands,           \* self.shell_commands
    partial_response_content, \* self.partial_response_content (as its lines)
    \* ---- the working tree and the diagnostic sink
    files,                    \* absolute path -> [exists, text]
    tool_errors,              \* io.tool_error messages of the running batch
    \* ---- one batch: get_edits, then apply_edits
    pc,                       \* "new" | "idle" | "filtered" | "previewed" | "applied" | "off"
    batch,                    \* what get_edits saw and returned
    result,                   \* what the last apply_edits did
    preview,                  \* what the dry run of this batch returned
    \* ---- _parse_whole_file_format, line by line
    spc,                      \* "scan" | "done" | "raised" | "off"
    chat_files,               \* chat_files
    fence,                    \* self.fence
    lines,                    \* lines consumed so far
    scan,                     \* the loop's locals
    \* ---- APIServer and APIIO
    command_in_progress,      \* self.command_in_progress
    command_lock,             \* the request holding self.command_lock, or NoRequest
    requests,                 \* request -> its position in _handle_command_request
    captured_lines,           \* io.captured_lines
    pending_prompt,           \* io.pending_prompt
    \* ---- InputOutput fields the two IO classes inherit
    never_prompts,            \* io.never_prompts
    num_user_asks,            \* io.num_user_asks
    \* ---- GUI and BrowserIO
    state,                    \* the session state: prompt, pending_confirmation,
                              \* confirmation_response, pending_command
    prompt_preferences,       \* question -> "ask" | "always_yes" | "always_no"
    asks,                     \* the calls of confirm_ask so far
    runs,                     \* the commands run so far
    clicks                    \* the answers the user has given so far

vars == <<editable_files, context_files, abs_fnames, abs_read_only_fnames,
          shell_commands, partial_response_content, files, tool_errors,
          pc, batch, result, preview, spc, chat_files, fence, lines, scan,
          command_in_progress, command_lock, requests, captured_lines,
          pending_prompt, never_prompts, num_user_asks,
          state, prompt_preferences, asks, runs, clicks>>

registryVars == <<editable_files, context_files, abs_fnames, abs_read_only_fnames>>
batchVars == <<shell_commands, partial_response_content, files, tool_errors,
               pc, batch, result, preview>>
scanVars == <<spc, chat_files, fence, lines, scan>>
apiVars == <<command_in_progress, command_lock, requests, captured_lines,
             pending_prompt>>
ioVars == <<never_prompts, num_user_asks>>
guiVars == <<state, prompt_preferences, asks, runs, clicks>>
uiVars == <<apiVars, ioVars, guiVars>>

\* no API server and no browser interface
UiOff ==
    /\ command_in_progress = FALSE /\ command_lock = <<>> /\ requests = <<>>
    /\ captured_lines = <<>> /\ pending_prompt = <<>>
    /\ never_prompts = {} /\ num_user_asks = 0
    /\ state = <<>> /\ prompt_preferences = <<>>
    /\ asks = <<>> /\ runs = <<>> /\ clicks = 0

-----------------------------------------------------------------------------
(* Bounds *)

MaxLines == 4
MaxEdits == 2

-----------------------------------------------------------------------------
(* Python str operations on atom sequences *)

None == <<>>
Some(x) == <<x>>

NL == "\n"
\* the backtick character
BT == "<backtick>"
Whitespace == {" ", NL}

\* the number of characters an atom stands for
AtomLen(a) == IF a = "LONG" THEN 251
              ELSE IF a \in {"a.md", "b.md", "path"} THEN 4
              ELSE 1

RECURSIVE StrLen(_)
StrLen(s) == IF s = <<>> THEN 0 ELSE AtomLen(Head(s)) + StrLen(Tail(s))

RECURSIVE LStrip(_, _)
LStrip(s, chars) ==
    IF s # <<>> /\ Head(s) \in chars THEN LStrip(Tail(s), chars) ELSE s

RECURSIVE RStrip(_, _)
RStrip(s, chars) ==
    IF s # <<>> /\ s[Len(s)] \in chars
    THEN RStrip(SubSeq(s, 1, Len(s) - 1), chars)
    ELSE s

Strip(s, chars) == RStrip(LStrip(s, chars), chars)

StartsWith(s, p) == Len(s) >= Len(p) /\ SubSeq(s, 1, Len(p)) = p

RECURSIVE Join(_)
Join(ss) == IF ss = <<>> THEN <<>> ELSE Head(ss) \o Join(Tail(ss))

\* str.split(): the maximal runs of non-whitespace atoms, in order
RECURSIVE SplitWords(_, _)
SplitWords(s, cur) ==
    IF s = <<>> THEN (IF cur = <<>> THEN <<>> ELSE <<cur>>)
    ELSE IF Head(s) \in Whitespace
         THEN (IF cur = <<>> THEN <<>> ELSE <<cur>>) \o SplitWords(Tail(s), <<>>)
         ELSE SplitWords(Tail(s), Append(cur, Head(s)))

Split(s) == SplitWords(s, <<>>)

\* Path(fname).name: the last component, trailing separators ignored
RECURSIVE LastComponent(_)
LastComponent(s) ==
    IF s = <<>> THEN <<>>
    ELSE IF \E k \in 1..Len(s) : s[k] = "/"
         THEN LastComponent(Tail(s))
         ELSE s

PathName(s) ==
    LET t == RStrip(s, {"/"}) IN
    IF LastComponent(t) = <<".">> THEN <<>> ELSE LastComponent(t)

InList(x, list) == \E k \in 1..Len(list) : list[k] = x

\* list[k - 1] of Python: the item, or None where Python raises IndexError
Item(list, k) == IF k \in 1..Len(list) THEN Some(list[k]) ELSE None


-----------------------------------------------------------------------------
(* _parse_whole_file_format: the fence scanner *)

MaxFnameLen == 250

Truthy(opt) == opt # None /\ opt[1] # <<>>

IsFenceLine(line, fnc) == StartsWith(line, fnc[1]) \/ StartsWith(line, fnc[2])

\* the line before an opening fence, stripped of its markup
StripName(prev) ==
    LET f1 == Strip(prev, Whitespace)
        f2 == Strip(f1, {"*"})
        f3 == RStrip(f2, {":"})
        f4 == Strip(f3, {BT})
        f5 == LStrip(f4, {"#"})
    IN  Strip(f5, Whitespace)

\* a plausible slip: the test "fname not in chat_files" is missing
CollapseBogusDir_AlwaysBasename(fname, chat) ==
    IF fname # <<>> /\ InList(PathName(fname), chat)
    THEN PathName(fname)
    ELSE fname

\* "Did gpt prepend a bogus dir?"
CollapseBogusDir(fname, chat) ==
    IF fname # <<>> /\ ~InList(fname, chat) /\ InList(PathName(fname), chat)
    THEN PathName(fname)
    ELSE fname

\* the name read off the line before an opening fence
FnameFromPrevLine(prev, chat) ==
    LET f6 == StripName(prev)
        f7 == IF StrLen(f6) > MaxFnameLen THEN <<>> ELSE f6
    IN  CollapseBogusDir(f7, chat)

\* a plausible slip: the inline mention is preferred to the preceding line
FallbackFname_SawFirst(fname, source, saw, chat) ==
    IF Truthy(saw) THEN [fname |-> saw, source |-> Some("saw"), error |-> None]
    ELSE IF Truthy(fname) THEN [fname |-> fname, source |-> source, error |-> None]
    ELSE IF Len(chat) = 1
         THEN [fname |-> Some(chat[1]), source |-> Some("chat"), error |-> None]
    ELSE [fname |-> fname, source |-> source, error |-> None]

\* a plausible slip: chat_files[0] is read whenever the list is not long
FallbackFname_FirstOfAny(fname, source, saw, chat) ==
    IF Truthy(fname) THEN [fname |-> fname, source |-> source, error |-> None]
    ELSE IF Truthy(saw) THEN [fname |-> saw, source |-> Some("saw"), error |-> None]
    ELSE IF Len(chat) <= 1
         THEN LET first == Item(chat, 1) IN
              [fname |-> IF first = None THEN fname ELSE first,
               source |-> Some("chat"),
               error |-> IF first = None THEN Some("IndexError") ELSE None]
    ELSE [fname |-> fname, source |-> source, error |-> None]

\* "if not fname": the fallbacks; with none left the loop continues and fname
\* keeps the value it has (None, or the empty name read off the line before)
FallbackFname(fname, source, saw, chat) ==
    IF Truthy(fname) THEN [fname |-> fname, source |-> source, error |-> None]
    ELSE IF Truthy(saw) THEN [fname |-> saw, source |-> Some("saw"), error |-> None]
    ELSE IF Len(chat) = 1
         THEN LET first == Item(chat, 1) IN
              [fname |-> IF first = None THEN fname ELSE first,
               source |-> Some("chat"),
               error |-> IF first = None THEN Some("IndexError") ELSE None]
    ELSE [fname |-> fname, source |-> source, error |-> None]

\* the backtick-quoted in-chat file a line mentions last, else saw
RECURSIVE SawInWords(_, _, _)
SawInWords(words, chat, saw) ==
    IF words = <<>> THEN saw
    ELSE LET word == RStrip(Head(words), {".", ":", ",", ";", "!"})
             hits == {k \in 1..Len(chat) : word = <<BT>> \o chat[k] \o <<BT>>}
             \* the inner loop leaves the last matching chat_file
             last == CHOOSE k \in hits : \A j \in hits : j <= k
         IN  SawInWords(Tail(words), chat,
                        IF hits = {} THEN saw ELSE Some(chat[last]))

\* the locals before the loop; error is the exception that left the function
ScanInit ==
    [fname |-> None, saw_fname |-> None, fname_source |-> None,
     new_lines |-> <<>>, edits |-> <<>>, error |-> None]

\* a fence line while a block is open: "ending an existing block"
CloseBlock(s) ==
    [s EXCEPT !.edits = Append(s.edits, <<s.fname[1], Join(s.new_lines)>>),
              !.fname = None, !.fname_source = None, !.new_lines = <<>>]

\* a fence line while fname is None: "starting a new block"
OpenBlock(s, prev, chat) ==
    LET named == IF prev # None
                 THEN [fname |-> Some(FnameFromPrevLine(prev[1], chat)),
                       source |-> Some("block")]
                 ELSE [fname |-> s.fname, source |-> s.fname_source]
        fb == FallbackFname(named.fname, named.source, s.saw_fname, chat)
    IN  [s EXCEPT !.fname = fb.fname, !.fname_source = fb.source,
                  !.error = fb.error]

\* one iteration of the loop over lines; prev is lines[i - 1], None when i = 0
ScanStep(s, line, prev, chat, fnc) ==
    IF IsFenceLine(line, fnc)
    THEN IF s.fname # None THEN CloseBlock(s) ELSE OpenBlock(s, prev, chat)
    ELSE IF s.fname # None
         THEN [s EXCEPT !.new_lines = Append(s.new_lines, line)]
         ELSE [s EXCEPT !.saw_fname =
                   SawInWords(Split(Strip(line, Whitespace)), chat, s.saw_fname)]

\* a plausible slip: the test "and new_lines" is missing
FinalBlock_EmitsEmpty(s) ==
    IF s.fname # None
    THEN [s EXCEPT !.edits = Append(s.edits, <<s.fname[1], Join(s.new_lines)>>)]
    ELSE s

\* "Handle final block"
FinalBlock(s) ==
    IF s.fname # None /\ s.new_lines # <<>>
    THEN [s EXCEPT !.edits = Append(s.edits, <<s.fname[1], Join(s.new_lines)>>)]
    ELSE s

RECURSIVE ScanFrom(_, _, _, _, _)
ScanFrom(s, ls, i, chat, fnc) ==
    IF i > Len(ls) \/ s.error # None THEN s
    ELSE ScanFrom(ScanStep(s, ls[i], IF i > 1 THEN Some(ls[i - 1]) ELSE None, chat, fnc),
                  ls, i + 1, chat, fnc)

\* the whole function, on the lines of content
ParseWholeFileFormat(ls, chat, fnc) ==
    FinalBlock(ScanFrom(ScanInit, ls, 1, chat, fnc)).edits

-----------------------------------------------------------------------------
(* The scanner run line by line on bounded inputs *)

FileA == <<"a.md">>
FileB == <<"b.md">>

\* self.fence: the default pair of triple backticks
DefaultFence == <<(<<BT, BT, BT>>), (<<BT, BT, BT>>)>>

FenceLine == <<BT, BT, BT, NL>>

LineVocab ==
    { <<"a.md", NL>>,                            \* a bare file name
      <<"*", "*", "b.md", "*", "*", NL>>,        \* a bold heading
      FenceLine,
      <<BT, BT, BT, "py", NL>>,                  \* a fence with a language
      <<"x", NL>>,                               \* text
      <<NL>>,                                    \* a blank line
      <<"see", " ", BT, "a.md", BT, ".", NL>>,   \* an inline mention
      <<"path", "/", "a.md", NL>>,               \* a name with a directory
      <<"LONG", NL>> }                           \* 251 characters

\* get_inchat_relative_files(): a sorted list
\* a.md under a directory
PathA == <<"path", "/", "a.md">>

ChatLists == { <<>>, <<FileA>>, <<FileA, FileB>>, <<PathA, FileA>> }

PrevLine == IF lines = <<>> THEN None ELSE Some(lines[Len(lines)])

\* the pipeline's variables while only the scanner runs
PipelineOff ==
    /\ editable_files = {} /\ context_files = {}
    /\ abs_fnames = {} /\ abs_read_only_fnames = {}
    /\ shell_commands = <<>> /\ partial_response_content = <<>>
    /\ files = <<>> /\ tool_errors = <<>>
    /\ pc = "off" /\ batch = <<>> /\ result = <<>> /\ preview = <<>>

InitScan ==
    /\ PipelineOff
    /\ UiOff
    /\ spc = "scan"
    /\ chat_files \in ChatLists
    /\ fence = DefaultFence
    /\ lines = <<>>
    /\ scan = ScanInit

\* the loop body on the next line of the text
ScanLine ==
    /\ spc = "scan"
    /\ Len(lines) < MaxLines
    /\ \E line \in LineVocab :
         /\ lines' = Append(lines, line)
         /\ scan' = ScanStep(scan, line, PrevLine, chat_files, fence)
    /\ spc' = IF scan'.error # None THEN "raised" ELSE "scan"
    /\ UNCHANGED <<chat_files, fence>>
    /\ UNCHANGED <<registryVars, batchVars, uiVars>>

\* the end of the text: the final block, and the return
ScanEnd ==
    /\ spc = "scan"
    /\ scan' = FinalBlock(scan)
    /\ spc' = "done"
    /\ UNCHANGED <<chat_files, fence, lines>>
    /\ UNCHANGED <<registryVars, batchVars, uiVars>>

NextScan == ScanLine \/ ScanEnd

SpecScan == InitScan /\ [][NextScan]_vars

-----------------------------------------------------------------------------
(* The session around the coder: paths, the working tree, the responses *)

\* the root of the working tree
Root == <<"/", "root", "/">>

\* "./a.md": another spelling of a.md
DotA == <<".", "/", "a.md">>

\* Coder.abs_root_path: the canonical absolute path of a relative one
AbsRootPath(path) ==
    Root \o (IF StartsWith(path, <<".", "/">>) THEN SubSeq(path, 3, Len(path)) ELSE path)

\* Coder.get_rel_fname
GetRelFname(abs) == SubSeq(abs, Len(Root) + 1, Len(abs))

AbsA == AbsRootPath(FileA)
AbsB == AbsRootPath(FileB)

\* every absolute path the bounded inputs can name; Root itself is what the
\* empty relative name resolves to
AbsPaths == {AbsA, AbsB, Root}

\* Coder.get_inchat_relative_files: the sorted relative names of abs_fnames
GetInchatRelativeFiles(fnames) ==
    SelectSeq(<<FileA, FileB>>, LAMBDA f : AbsRootPath(f) \in fnames)

SearchMarker == "<<<<<<< SEARCH"
DividerMarker == "======="
ReplaceMarker == ">>>>>>> REPLACE"

\* marker in content, content given by its lines
Contains(content, marker) ==
    \E k \in 1..Len(content) : \E j \in 1..Len(content[k]) : content[k][j] = marker

TextX == <<"x", NL>>
TextY == <<"y", NL>>
TextZ == <<"z", NL>>

\* the responses of the model the session may hand to get_edits
Responses ==
    { \* whole-file form, the name on the line before the fence
      << <<"a.md", NL>>, FenceLine, TextX, FenceLine >>,
      \* whole-file form under a bold heading
      << <<"*", "*", "b.md", "*", "*", NL>>, FenceLine, TextY, FenceLine >>,
      \* a block after a blank line: no name to read
      << <<NL>>, FenceLine, TextX, FenceLine >>,
      \* a search/replace block
      << <<"a.md", NL>>, FenceLine, <<SearchMarker, NL>>, TextX,
         <<DividerMarker, NL>>, TextY, <<ReplaceMarker, NL>>, FenceLine >>,
      \* a block cut off after its search marker
      << <<"a.md", NL>>, FenceLine, <<SearchMarker, NL>>, FenceLine >> }

\* the path of a shell-command item: Python's None, which is no str
NoPath == <<"<None>">>

\* what find_original_update_blocks may yield: (path, original, updated)
\* triples and (None, command) pairs
DecodeItems ==
    { <<FileA, TextX, TextY>>,       \* x -> y
      <<DotA, TextX, TextY>>,        \* the same file under its other spelling
      <<FileB, TextZ, TextY>>,       \* z is in no file
      <<NoPath, <<"ls", NL>>>> }

RECURSIVE SeqsUpTo(_, _)
SeqsUpTo(S, n) ==
    IF n = 0 THEN {<<>>}
    ELSE LET shorter == SeqsUpTo(S, n - 1)
         IN  shorter \cup {Append(q, x) : q \in {r \in shorter : Len(r) = n - 1}, x \in S}

\* a response with a search/replace block and a block of two shell commands
ShellResponse ==
    << <<"a.md", NL>>, FenceLine, <<SearchMarker, NL>>, TextX,
       <<DividerMarker, NL>>, TextY, <<ReplaceMarker, NL>>, FenceLine,
       <<BT, BT, BT, "bash", NL>>, <<"ls", NL>>, <<"pwd", NL>>, FenceLine >>

\* the (None, command) pairs a second command line of the response adds
CommandItems(content) ==
    {<<NoPath, content[k]>> : k \in {j \in 1..Len(content) : content[j] = <<"pwd", NL>>}}

\* find_original_update_blocks(content, fence, chat_files): an external
\* decoder; any bounded list of items may come out of it
FindOriginalUpdateBlocks(content, fnc, chat) ==
    SeqsUpTo(DecodeItems \cup CommandItems(content), MaxEdits)

-----------------------------------------------------------------------------
(* get_edits: extraction and filtering *)

\* a plausible slip: one marker is taken for a search/replace block
HasSearchReplaceBlocks_Either(content) ==
    Contains(content, SearchMarker) \/ Contains(content, ReplaceMarker)

\* the condition of the dispatch
HasSearchReplaceBlocks(content) ==
    Contains(content, SearchMarker) /\ Contains(content, ReplaceMarker)

ContextOnlyError(path) ==
    <<"Cannot edit ">> \o path \o <<": file is marked as context-only">>

\* a plausible slip: the context check is made on the path as written
RECURSIVE FilterEdits_Unresolved(_, _, _, _)
FilterEdits_Unresolved(edits, k, context, acc) ==
    IF k > Len(edits) THEN acc
    ELSE LET edit == edits[k]
             path == edit[1]
             full_path == AbsRootPath(path)
         IN  IF Root \o path \in context
             THEN FilterEdits_Unresolved(edits, k + 1, context,
                      [acc EXCEPT !.errors = Append(@, ContextOnlyError(path))])
             ELSE FilterEdits_Unresolved(edits, k + 1, context,
                      [acc EXCEPT !.editable = @ \cup {full_path},
                                  !.kept = Append(@, edit)])

\* a plausible slip: a new target is kept without being added to the editable set
RECURSIVE FilterEdits_NoPromote(_, _, _, _)
FilterEdits_NoPromote(edits, k, context, acc) ==
    IF k > Len(edits) THEN acc
    ELSE IF AbsRootPath(edits[k][1]) \in context
         THEN FilterEdits_NoPromote(edits, k + 1, context,
                  [acc EXCEPT !.errors = Append(@, ContextOnlyError(edits[k][1]))])
         ELSE FilterEdits_NoPromote(edits, k + 1, context,
                  [acc EXCEPT !.kept = Append(@, edits[k])])

\* a plausible slip: an edit of a file that is not yet editable is dropped
RECURSIVE FilterEdits_DropsUntracked(_, _, _, _)
FilterEdits_DropsUntracked(edits, k, context, acc) ==
    IF k > Len(edits) THEN acc
    ELSE IF AbsRootPath(edits[k][1]) \in context
         THEN FilterEdits_DropsUntracked(edits, k + 1, context,
                  [acc EXCEPT !.errors = Append(@, ContextOnlyError(edits[k][1]))])
         ELSE IF AbsRootPath(edits[k][1]) \in acc.editable
              THEN FilterEdits_DropsUntracked(edits, k + 1, context,
                       [acc EXCEPT !.kept = Append(@, edits[k])])
              ELSE FilterEdits_DropsUntracked(edits, k + 1, context, acc)

\* a plausible slip: the path is added to the editable set before the test
\* on the context set
RECURSIVE FilterEdits_PromotesBeforeTest(_, _, _, _)
FilterEdits_PromotesBeforeTest(edits, k, context, acc) ==
    IF k > Len(edits) THEN acc
    ELSE LET full_path == AbsRootPath(edits[k][1])
             added == [acc EXCEPT !.editable = @ \cup {full_path}]
         IN  IF full_path \in context
             THEN FilterEdits_PromotesBeforeTest(edits, k + 1, context,
                      [added EXCEPT !.errors = Append(@, ContextOnlyError(edits[k][1]))])
             ELSE FilterEdits_PromotesBeforeTest(edits, k + 1, context,
                      [added EXCEPT !.kept = Append(@, edits[k])])

\* a plausible slip: the pass ends at the first edit of a context file
RECURSIVE FilterEdits_StopsAtViolation(_, _, _, _)
FilterEdits_StopsAtViolation(edits, k, context, acc) ==
    IF k > Len(edits) THEN acc
    ELSE LET full_path == AbsRootPath(edits[k][1])
         IN  IF full_path \in context
             THEN [acc EXCEPT !.errors = Append(@, ContextOnlyError(edits[k][1]))]
             ELSE FilterEdits_StopsAtViolation(edits, k + 1, context,
                      [acc EXCEPT !.editable = @ \cup {full_path},
                                  !.kept = Append(@, edits[k])])

\* the loop over edits: [kept, editable, errors]
RECURSIVE FilterEdits(_, _, _, _)
FilterEdits(edits, k, context, acc) ==
    IF k > Len(edits) THEN acc
    ELSE LET edit == edits[k]
             path == edit[1]
             full_path == AbsRootPath(path)
         IN  IF Len(edit) \in {2, 3}
             THEN IF full_path \in context
                  THEN FilterEdits(edits, k + 1, context,
                           [acc EXCEPT !.errors = Append(@, ContextOnlyError(path))])
                  ELSE FilterEdits(edits, k + 1, context,
                           [acc EXCEPT !.editable = @ \cup {full_path},
                                       !.kept = Append(@, edit)])
             ELSE FilterEdits(edits, k + 1, context, acc)

\* a plausible slip: the test "edit[0] is None" is missing
ShellCommandsOf_Unfiltered(decoded) == [k \in 1..Len(decoded) |-> decoded[k][2]]

\* the commands of the (None, command) items, in order
ShellCommandsOf(decoded) ==
    LET items == SelectSeq(decoded, LAMBDA e : e[1] = NoPath)
    IN  [k \in 1..Len(items) |-> items[k][2]]

MaxShellCommands == 2

\* get_edits on a response; decoded is what the block decoder yields if called
GetEditsOn(content, decoded) ==
    LET blocks == HasSearchReplaceBlocks(content)
        chat == GetInchatRelativeFiles(abs_fnames)
        edits == IF blocks
                 THEN SelectSeq(decoded, LAMBDA e : e[1] # NoPath)
                 ELSE ParseWholeFileFormat(content, chat, fence)
        out == FilterEdits(edits, 1, context_files,
                   [kept |-> <<>>, editable |-> editable_files, errors |-> <<>>])
    IN  /\ partial_response_content' = content
        /\ shell_commands' =
               IF blocks THEN shell_commands \o ShellCommandsOf(decoded)
               ELSE shell_commands
        /\ Len(shell_commands') <= MaxShellCommands
        /\ editable_files' = out.editable
        /\ tool_errors' = tool_errors \o out.errors
        /\ batch' = Some([calls |-> IF blocks THEN <<"find_original_update_blocks">>
                                    ELSE <<"_parse_whole_file_format">>,
                          decoded |-> decoded,
                          edits |-> edits,
                          filtered_edits |-> out.kept])
        /\ pc' = "filtered"

GetEdits ==
    /\ pc = "idle"
    /\ \E content \in Responses :
         \E decoded \in FindOriginalUpdateBlocks(content, fence,
                                                 GetInchatRelativeFiles(abs_fnames)) :
            \* the decoder is consulted only on the branch that calls it
            /\ HasSearchReplaceBlocks(content) \/ decoded = <<>>
            /\ GetEditsOn(content, decoded)
    /\ UNCHANGED <<context_files, abs_fnames, abs_read_only_fnames,
                   files, result, preview, scanVars, uiVars>>

-----------------------------------------------------------------------------
(* apply_edits: the applicator *)

Absent == [kind |-> "absent", text |-> <<>>]
Directory == [kind |-> "dir", text |-> <<>>]
File(text) == [kind |-> "file", text |-> text]

\* Path(full_path).exists()
Exists(fs, full_path) == fs[full_path].kind # "absent"

\* io.read_text: the text of a file, None for what cannot be read
ReadText(fs, full_path) ==
    IF fs[full_path].kind = "file" THEN Some(fs[full_path].text) ELSE None

\* io.write_text raises on a path that is a directory
WriteRaises(fs, full_path) == fs[full_path].kind = "dir"

\* the first index at which part occurs in text, 0 if none
FindFirst(text, part) ==
    LET at == {k \in 1..(Len(text) - Len(part) + 1) :
                  SubSeq(text, k, k + Len(part) - 1) = part}
    IN  IF at = {} THEN 0 ELSE CHOOSE k \in at : \A j \in at : k <= j

\* editblock_coder.do_replace: the reconciliation; <<>> stands for both of
\* its falsy results, None and the empty string
DoReplace(content, original, updated) ==
    IF content = None THEN <<>>
    ELSE IF Strip(original, Whitespace) = <<>> THEN content[1] \o updated
    ELSE LET k == FindFirst(content[1], original)
         IN  IF k = 0 THEN <<>>
             ELSE SubSeq(content[1], 1, k - 1) \o updated
                      \o SubSeq(content[1], k + Len(original), Len(content[1]))

\* the locals before the loop; writes, errors, reconciles and attempts log the
\* calls of io.write_text, io.tool_error and do_replace and the iterations
ApplyInit(fs) ==
    [fs |-> fs, applied_files |-> <<>>, failed_edits |-> <<>>,
     writes |-> <<>>, errors |-> <<>>, reconciles |-> <<>>, attempts |-> <<>>]

WriteText(st, full_path, text) ==
    [st EXCEPT !.fs = [@ EXCEPT ![full_path] = File(text)],
               !.writes = Append(@, <<full_path, text>>)]

\* the call of do_replace on the text read from full_path
Reconcile(st, full_path, edit) ==
    [st EXCEPT !.reconciles = Append(@, <<full_path, edit[2], edit[3]>>)]

\* the text of the exception io.write_text raises
WriteErrorText == "IsADirectoryError"

\* f"Failed to write {path}: {str(e)}"
WriteFailedError(path) == <<"Failed to write ">> \o path \o <<": ", WriteErrorText>>

\* a plausible slip: nothing is written once an edit of the batch has failed
ApplySearchReplace_StopAfterFailure(st, edit, dry_run) ==
    LET path == edit[1]
        full_path == AbsRootPath(path)
    IN  IF Exists(st.fs, full_path)
        THEN LET content == ReadText(st.fs, full_path)
                 new_content == DoReplace(content, edit[2], edit[3])
                 st1 == Reconcile(st, full_path, edit)
             IN  IF new_content # <<>>
                 THEN [(IF dry_run \/ st.failed_edits # <<>> THEN st1
                        ELSE WriteText(st1, full_path, new_content))
                          EXCEPT !.applied_files = Append(@, path)]
                 ELSE [st1 EXCEPT !.failed_edits = Append(@, edit)]
        ELSE [st EXCEPT !.failed_edits = Append(@, edit)]

\* a plausible slip: the dry_run test is missing before the write
ApplySearchReplace_WritesInDryRun(st, edit, dry_run) ==
    LET path == edit[1]
        full_path == AbsRootPath(path)
    IN  IF Exists(st.fs, full_path)
        THEN LET content == ReadText(st.fs, full_path)
                 new_content == DoReplace(content, edit[2], edit[3])
                 st1 == Reconcile(st, full_path, edit)
             IN  IF new_content # <<>>
                 THEN [WriteText(st1, full_path, new_content)
                          EXCEPT !.applied_files = Append(@, path)]
                 ELSE [st1 EXCEPT !.failed_edits = Append(@, edit)]
        ELSE [st EXCEPT !.failed_edits = Append(@, edit)]

\* a plausible slip: an empty search text creates the file that is missing
ApplySearchReplace_CreatesOnEmptySearch(st, edit, dry_run) ==
    LET path == edit[1]
        full_path == AbsRootPath(path)
        content == IF Exists(st.fs, full_path) THEN ReadText(st.fs, full_path)
                   ELSE IF Strip(edit[2], Whitespace) = <<>> THEN Some(<<>>)
                   ELSE None
        new_content == DoReplace(content, edit[2], edit[3])
        st1 == Reconcile(st, full_path, edit)
    IN  IF new_content # <<>>
        THEN [(IF dry_run THEN st1 ELSE WriteText(st1, full_path, new_content))
                 EXCEPT !.applied_files = Append(@, path)]
        ELSE [st1 EXCEPT !.failed_edits = Append(@, edit)]

\* a plausible slip: the test is "new_content is not None", so that a match
\* whose result is the empty text is written
ApplySearchReplace_AcceptsEmpty(st, edit, dry_run) ==
    LET path == edit[1]
        full_path == AbsRootPath(path)
    IN  IF Exists(st.fs, full_path)
        THEN LET content == ReadText(st.fs, full_path)
                 new_content == DoReplace(content, edit[2], edit[3])
                 st1 == Reconcile(st, full_path, edit)
             IN  IF content # None /\ (new_content # <<>> \/ edit[2] = content[1])
                 THEN [(IF dry_run THEN st1 ELSE WriteText(st1, full_path, new_content))
                          EXCEPT !.applied_files = Append(@, path)]
                 ELSE [st1 EXCEPT !.failed_edits = Append(@, edit)]
        ELSE [st EXCEPT !.failed_edits = Append(@, edit)]

\* the branch for a (path, original, updated) edit
ApplySearchReplace(st, edit, dry_run) ==
    LET path == edit[1]
        full_path == AbsRootPath(path)
    IN  IF Exists(st.fs, full_path)
        THEN LET content == ReadText(st.fs, full_path)
                 new_content == DoReplace(content, edit[2], edit[3])
                 st1 == Reconcile(st, full_path, edit)
             IN  IF new_content # <<>>
                 THEN [(IF dry_run THEN st1 ELSE WriteText(st1, full_path, new_content))
                          EXCEPT !.applied_files = Append(@, path)]
                 ELSE [st1 EXCEPT !.failed_edits = Append(@, edit)]
        ELSE [st EXCEPT !.failed_edits = Append(@, edit)]

\* a plausible slip: the path is counted as touched outside the try
ApplyWholeFile_CountsFailedWrite(st, edit, dry_run) ==
    LET path == edit[1]
        full_path == AbsRootPath(path)
    IN  IF dry_run THEN [st EXCEPT !.applied_files = Append(@, path)]
        ELSE IF WriteRaises(st.fs, full_path)
             THEN [st EXCEPT !.errors = Append(@, WriteFailedError(path)),
                             !.applied_files = Append(@, path)]
             ELSE [WriteText(st, full_path, edit[2])
                      EXCEPT !.applied_files = Append(@, path)]

\* a plausible slip: the file is opened for appending
ApplyWholeFile_Appends(st, edit, dry_run) ==
    LET path == edit[1]
        full_path == AbsRootPath(path)
    IN  IF dry_run THEN [st EXCEPT !.applied_files = Append(@, path)]
        ELSE IF WriteRaises(st.fs, full_path)
             THEN [st EXCEPT !.errors = Append(@, WriteFailedError(path))]
             ELSE [WriteText(st, full_path, st.fs[full_path].text \o edit[2])
                      EXCEPT !.applied_files = Append(@, path)]

\* a plausible slip: a whole-file edit is passed over once an edit has failed
ApplyWholeFile_SkippedAfterFailure(st, edit, dry_run) ==
    LET path == edit[1]
        full_path == AbsRootPath(path)
    IN  IF dry_run THEN [st EXCEPT !.applied_files = Append(@, path)]
        ELSE IF st.failed_edits # <<>> THEN st
        ELSE IF WriteRaises(st.fs, full_path)
             THEN [st EXCEPT !.errors = Append(@, WriteFailedError(path))]
             ELSE [WriteText(st, full_path, edit[2])
                      EXCEPT !.applied_files = Append(@, path)]

\* the branch for a (path, content) edit
ApplyWholeFile(st, edit, dry_run) ==
    LET path == edit[1]
        full_path == AbsRootPath(path)
    IN  IF dry_run THEN [st EXCEPT !.applied_files = Append(@, path)]
        ELSE IF WriteRaises(st.fs, full_path)
             THEN [st EXCEPT !.errors = Append(@, WriteFailedError(path))]
             ELSE [WriteText(st, full_path, edit[2])
                      EXCEPT !.applied_files = Append(@, path)]

\* one iteration of the loop over edits
ApplyOne(st, edit, dry_run) ==
    LET st0 == [st EXCEPT !.attempts = Append(@, edit)] IN
    IF Len(edit) = 3 THEN ApplySearchReplace(st0, edit, dry_run)
    ELSE IF Len(edit) = 2 THEN ApplyWholeFile(st0, edit, dry_run)
    ELSE st0

\* a plausible slip: the loop is left at the first failed edit
RECURSIVE ApplyLoop_FailFast(_, _, _, _)
ApplyLoop_FailFast(st, edits, k, dry_run) ==
    IF k > Len(edits) \/ (st.failed_edits # <<>> /\ ~dry_run) THEN st
    ELSE ApplyLoop_FailFast(ApplyOne(st, edits[k], dry_run), edits, k + 1, dry_run)

\* a plausible slip: the list is walked from its end
RECURSIVE ApplyLoop_Reversed(_, _, _, _)
ApplyLoop_Reversed(st, edits, k, dry_run) ==
    IF k > Len(edits) THEN st
    ELSE ApplyLoop_Reversed(ApplyOne(st, edits[Len(edits) - k + 1], dry_run),
                            edits, k + 1, dry_run)

\* the loop over edits
RECURSIVE ApplyLoop(_, _, _, _)
ApplyLoop(st, edits, k, dry_run) ==
    IF k > Len(edits) THEN st
    ELSE ApplyLoop(ApplyOne(st, edits[k], dry_run), edits, k + 1, dry_run)

SectionHead ==
    "## SearchReplaceNoExactMatch: This SEARCH block failed to exactly match lines in "

MatchInstruction ==
    "The SEARCH section must exactly match an existing block of lines including all white space, comments, indentation, docstrings, etc"

\* a plausible slip: each section is put in front of the sections built so far
RECURSIVE FailedSections_Reversed(_)
FailedSections_Reversed(failed) ==
    IF failed = <<>> THEN <<>>
    ELSE LET edit == Head(failed)
         IN  FailedSections_Reversed(Tail(failed))
                 \o <<NL, SectionHead>> \o edit[1] \o <<NL, SearchMarker, NL>> \o edit[2]
                 \o <<DividerMarker, NL>> \o edit[3] \o <<ReplaceMarker, NL, NL>>

RECURSIVE FailedSections(_)
FailedSections(failed) ==
    IF failed = <<>> THEN <<>>
    ELSE LET edit == Head(failed)
         IN  <<NL, SectionHead>> \o edit[1] \o <<NL, SearchMarker, NL>> \o edit[2]
                 \o <<DividerMarker, NL>> \o edit[3] \o <<ReplaceMarker, NL, NL>>
                 \o FailedSections(Tail(failed))

\* the text of the ValueError
FailureMessage(failed) ==
    <<"# ", ToString(Len(failed)), " SEARCH/REPLACE ",
      IF Len(failed) = 1 THEN "block" ELSE "blocks", " failed to match!", NL>>
        \o FailedSections(failed) \o <<MatchInstruction, NL>>

\* "if failed_edits and not dry_run": the aggregate failure is raised
RaisesFailure(failed_edits, dry_run) == failed_edits # <<>> /\ ~dry_run

\* apply_edits(edits, dry_run) on the working tree fs
ApplyEditsOn(fs, edits, dry_run) ==
    LET st == ApplyLoop(ApplyInit(fs), edits, 1, dry_run)
        raised == RaisesFailure(st.failed_edits, dry_run)
    IN  [dry_run |-> dry_run, edits |-> edits, before |-> fs, after |-> st.fs,
         applied_files |-> st.applied_files, failed_edits |-> st.failed_edits,
         writes |-> st.writes, errors |-> st.errors,
         reconciles |-> st.reconciles, attempts |-> st.attempts,
         raised |-> raised,
         message |-> IF raised THEN FailureMessage(st.failed_edits) ELSE <<>>,
         returned |-> IF raised THEN None ELSE Some(st.applied_files)]

\* the dry run of the batch
ApplyEditsDryRun ==
    /\ pc = "filtered"
    /\ LET r == ApplyEditsOn(files, batch[1].filtered_edits, TRUE)
       IN  /\ files' = r.after
           /\ tool_errors' = tool_errors \o r.errors
           /\ preview' = Some(r)
    /\ pc' = "previewed"
    /\ UNCHANGED <<registryVars, shell_commands, partial_response_content,
                   batch, result, scanVars, uiVars>>

\* a plausible slip: the path of an edit that failed loses its promotion
ApplyEdits_DemotesFailed ==
    /\ pc \in {"filtered", "previewed"}
    /\ LET r == ApplyEditsOn(files, batch[1].filtered_edits, FALSE)
       IN  /\ files' = r.after
           /\ tool_errors' = tool_errors \o r.errors
           /\ result' = Some(r)
           /\ editable_files' = editable_files \
                  {AbsRootPath(r.failed_edits[k][1]) : k \in 1..Len(r.failed_edits)}
    /\ pc' = "applied"
    /\ UNCHANGED <<context_files, abs_fnames, abs_read_only_fnames,
                   shell_commands, partial_response_content,
                   batch, preview, scanVars, uiVars>>

\* the batch applied
ApplyEdits ==
    /\ pc \in {"filtered", "previewed"}
    /\ LET r == ApplyEditsOn(files, batch[1].filtered_edits, FALSE)
       IN  /\ files' = r.after
           /\ tool_errors' = tool_errors \o r.errors
           /\ result' = Some(r)
    /\ pc' = "applied"
    /\ UNCHANGED <<registryVars, shell_commands, partial_response_content,
                   batch, preview, scanVars, uiVars>>

\* the batch is over: its locals and the diagnostics shown are gone, and the
\* next message starts from an empty response
Return ==
    /\ pc \in {"previewed", "applied"}
    /\ pc' = "idle"
    /\ batch' = None /\ result' = None /\ preview' = None /\ tool_errors' = <<>>
    /\ partial_response_content' = <<>>
    /\ UNCHANGED <<registryVars, shell_commands, files, scanVars, uiVars>>

-----------------------------------------------------------------------------
(* The classification registry *)

\* a plausible slip: the read-only loop runs first and the editable loop
\* takes its paths out of the context set
ClassifyFiles_EditableWins(fnames, read_only) ==
    [editable |-> fnames, context |-> read_only \ fnames]

\* _classify_files: the two loops of __init__
ClassifyFiles(fnames, read_only) ==
    [editable |-> fnames \ read_only, context |-> read_only]

RelFnames == {FileA, FileB}

\* the values add_rel_fname is called with: its default, 'context', and one
\* that is neither
Modes == {"editable", "context", "read-only"}

\* a plausible slip: the path is not taken out of the other set
AddRelFname_NoDiscard(fname, mode) ==
    /\ pc = "idle"
    /\ LET abs_fname == AbsRootPath(fname)
       IN  /\ abs_fnames' = abs_fnames \cup {abs_fname}
           /\ IF mode = "context"
              THEN /\ context_files' = context_files \cup {abs_fname}
                   /\ editable_files' = editable_files
              ELSE /\ editable_files' = editable_files \cup {abs_fname}
                   /\ context_files' = context_files
    /\ UNCHANGED <<abs_read_only_fnames, batchVars, scanVars, uiVars>>

\* a plausible slip: only the mode named 'editable' makes a path editable
AddRelFname_EditableByName(fname, mode) ==
    /\ pc = "idle"
    /\ LET abs_fname == AbsRootPath(fname)
       IN  /\ abs_fnames' = abs_fnames \cup {abs_fname}
           /\ IF mode = "editable"
              THEN /\ editable_files' = editable_files \cup {abs_fname}
                   /\ context_files' = context_files \ {abs_fname}
              ELSE /\ context_files' = context_files \cup {abs_fname}
                   /\ editable_files' = editable_files \ {abs_fname}
    /\ UNCHANGED <<abs_read_only_fnames, batchVars, scanVars, uiVars>>

AddRelFname(fname, mode) ==
    /\ pc = "idle"
    /\ LET abs_fname == AbsRootPath(fname)
       IN  /\ abs_fnames' = abs_fnames \cup {abs_fname}   \* super().add_rel_fname
           /\ IF mode = "context"
              THEN /\ context_files' = context_files \cup {abs_fname}
                   /\ editable_files' = editable_files \ {abs_fname}
              ELSE /\ editable_files' = editable_files \cup {abs_fname}
                   /\ context_files' = context_files \ {abs_fname}
    /\ UNCHANGED <<abs_read_only_fnames, batchVars, scanVars, uiVars>>

\* a plausible slip: the helper makes the path editable as add_rel_fname does
AddEditableFileIfNotContext_Moves(abs_fname) ==
    /\ pc = "idle"
    /\ editable_files' = editable_files \cup {abs_fname}
    /\ context_files' = context_files \ {abs_fname}
    /\ UNCHANGED <<abs_fnames, abs_read_only_fnames, batchVars, scanVars, uiVars>>

AddEditableFileIfNotContext(abs_fname) ==
    /\ pc = "idle"
    /\ editable_files' = IF abs_fname \notin context_files
                         THEN editable_files \cup {abs_fname}
                         ELSE editable_files
    /\ UNCHANGED <<context_files, abs_fnames, abs_read_only_fnames,
                   batchVars, scanVars, uiVars>>

\* a plausible slip: the path is taken out of the editable set only
DropRelFname_KeepsContext(fname) ==
    /\ pc = "idle"
    /\ LET abs_fname == AbsRootPath(fname)
       IN  /\ abs_fnames' = abs_fnames \ {abs_fname}
           /\ editable_files' = editable_files \ {abs_fname}
           /\ context_files' = context_files
    /\ UNCHANGED <<abs_read_only_fnames, batchVars, scanVars, uiVars>>

DropRelFname(fname) ==
    /\ pc = "idle"
    /\ LET abs_fname == AbsRootPath(fname)
       IN  /\ abs_fnames' = abs_fnames \ {abs_fname}      \* super().drop_rel_fname
           /\ editable_files' = editable_files \ {abs_fname}
           /\ context_files' = context_files \ {abs_fname}
    /\ UNCHANGED <<abs_read_only_fnames, batchVars, scanVars, uiVars>>

EnsureFileIsTracked(abs_fname) ==
    /\ pc = "idle"
    /\ IF abs_fname \notin abs_read_only_fnames
       THEN /\ abs_fnames' = abs_fnames \cup {abs_fname}
            /\ editable_files' = IF abs_fname \notin context_files
                                 THEN editable_files \cup {abs_fname}
                                 ELSE editable_files
       ELSE UNCHANGED <<abs_fnames, editable_files>>
    /\ UNCHANGED <<context_files, abs_read_only_fnames, batchVars, scanVars, uiVars>>

-----------------------------------------------------------------------------
(* The session: a coder is constructed, then files are added and dropped *)
(* and batches run, one at a time                                         *)

\* the working trees a session may start in
InitialTrees ==
    { [p \in AbsPaths |-> IF p = Root THEN Directory
                          ELSE IF p = AbsA THEN a ELSE b] :
         a \in {Absent, File(TextX), File(TextY)}, b \in {Absent, File(TextX)} }

ScannerOff ==
    /\ spc = "off" /\ chat_files = <<>> /\ lines = <<>> /\ scan = ScanInit

Init ==
    /\ abs_fnames \in SUBSET {AbsA, AbsB}
    /\ abs_read_only_fnames \in SUBSET {AbsB}
    /\ editable_files = ClassifyFiles(abs_fnames, abs_read_only_fnames).editable
    /\ context_files = ClassifyFiles(abs_fnames, abs_read_only_fnames).context
    /\ shell_commands = <<>>
    /\ partial_response_content = <<>>
    /\ files \in InitialTrees
    /\ tool_errors = <<>>
    /\ pc = "idle"
    /\ batch = None /\ result = None /\ preview = None
    /\ fence = DefaultFence
    /\ ScannerOff
    /\ UiOff

Next ==
    \/ \E fname \in RelFnames, mode \in Modes : AddRelFname(fname, mode)
    \/ \E fname \in RelFnames : DropRelFname(fname)
    \/ \E abs_fname \in {AbsA, AbsB} : AddEditableFileIfNotContext(abs_fname)
    \/ \E abs_fname \in {AbsA, AbsB} : EnsureFileIsTracked(abs_fname)
    \/ GetEdits
    \/ ApplyEditsDryRun
    \/ ApplyEdits
    \/ Return

Spec == Init /\ [][Next]_vars

-----------------------------------------------------------------------------
(* The construction of the coder, from any two initial file lists *)

InitClassify ==
    /\ abs_fnames \in SUBSET {AbsA, AbsB}
    /\ abs_read_only_fnames \in SUBSET {AbsA, AbsB}
    /\ editable_files = {} /\ context_files = {}
    /\ shell_commands = <<>>
    /\ partial_response_content = <<>>
    /\ files \in InitialTrees
    /\ tool_errors = <<>>
    /\ pc = "new"
    /\ batch = None /\ result = None /\ preview = None
    /\ fence = DefaultFence
    /\ ScannerOff
    /\ UiOff

\* __init__: the two sets are created empty, then _classify_files runs
Classify ==
    /\ pc = "new"
    /\ editable_files' = ClassifyFiles(abs_fnames, abs_read_only_fnames).editable
    /\ context_files' = ClassifyFiles(abs_fnames, abs_read_only_fnames).context
    /\ pc' = "idle"
    /\ UNCHANGED <<abs_fnames, abs_read_only_fnames, shell_commands,
                   partial_response_content, files, tool_errors,
                   batch, result, preview, scanVars, uiVars>>

NextClassify == Classify

SpecClassify == InitClassify /\ [][NextClassify]_vars

-----------------------------------------------------------------------------
(* get_edits and apply_edits on responses that hold shell commands *)

GetEditsShell ==
    /\ pc = "idle"
    /\ \E content \in Responses \cup {ShellResponse} :
         \E decoded \in FindOriginalUpdateBlocks(content, fence,
                                                 GetInchatRelativeFiles(abs_fnames)) :
            /\ HasSearchReplaceBlocks(content) \/ decoded = <<>>
            /\ GetEditsOn(content, decoded)
    /\ UNCHANGED <<context_files, abs_fnames, abs_read_only_fnames,
                   files, result, preview, scanVars, uiVars>>

NextExtract == GetEditsShell \/ ApplyEdits \/ Return

SpecExtract == Init /\ [][NextExtract]_vars

-----------------------------------------------------------------------------
(* apply_edits on its own: any bounded edit list on any initial tree *)

\* the edits a caller may hand to apply_edits
ApplyItems ==
    { <<FileA, TextX, TextY>>,       \* x -> y
      <<FileA, TextY, <<>>>>,        \* delete y
      <<FileA, TextZ, TextY>>,       \* z is in no file
      <<FileB, TextX, TextY>>,
      <<FileB, <<>>, TextY>>,        \* an empty search text
      <<FileA, TextY>>,              \* whole file
      <<FileA, TextX>>,              \* whole file, another content
      <<FileB, TextX>>,
      <<(<<>>), TextX>> }            \* whole file, the empty name

InitApply ==
    /\ editable_files = {} /\ context_files = {}
    /\ abs_fnames = {} /\ abs_read_only_fnames = {}
    /\ shell_commands = <<>>
    /\ partial_response_content = <<>>
    /\ files \in InitialTrees
    /\ tool_errors = <<>>
    /\ pc = "filtered"
    /\ \E edits \in SeqsUpTo(ApplyItems, MaxEdits) :
          batch = Some([calls |-> <<>>, decoded |-> <<>>, edits |-> edits,
                        filtered_edits |-> edits])
    /\ result = None /\ preview = None
    /\ fence = DefaultFence
    /\ ScannerOff
    /\ UiOff

NextApply == ApplyEditsDryRun \/ ApplyEdits

SpecApply == InitApply /\ [][NextApply]_vars

-----------------------------------------------------------------------------
(* Claims about the fence scanner, under SpecScan *)

LastLine == lines[Len(lines)]

\* the text is a whole-file encoding of (p, c): p, a fence, the lines c, a fence
IsEncoding(p) ==
    /\ Len(lines) >= 3
    /\ lines[1] = p \o <<NL>>
    /\ lines[2] = FenceLine
    /\ LastLine = FenceLine

EncodedContent == SubSeq(lines, 3, Len(lines) - 1)

\* C5: round trip.  Decoding the whole-file encoding of (p, c), p an in-chat
\* path, yields exactly the one pair (p, c), also when lines of c start with a
\* fence delimiter.
C5_RoundTrip ==
    \A k \in 1..Len(chat_files) :
        (spc = "done" /\ IsEncoding(chat_files[k]))
            => scan.edits = << <<chat_files[k], Join(EncodedContent)>> >>

\* the step that has just run was a fence line opening a block
OpensBlock ==
    /\ spc = "scan"
    /\ lines' # lines
    /\ scan.fname = None
    /\ IsFenceLine(lines'[Len(lines')], fence)

\* the preceding line names a file: non-empty and at most 250 characters
PrevGivesName ==
    /\ lines # <<>>
    /\ StripName(LastLine) # <<>>
    /\ StrLen(StripName(LastLine)) <= MaxFnameLen

\* rules (c) and (d), when the preceding line gives no name
C6_Fallbacks ==
    /\ (~PrevGivesName /\ scan.saw_fname # None) => scan'.fname = scan.saw_fname
    /\ (~PrevGivesName /\ scan.saw_fname = None /\ Len(chat_files) = 1)
           => scan'.fname = Some(chat_files[1])

\* C6 as stated: an opening fence takes the stripped preceding line itself as
\* the filename whenever it is non-empty and at most 250 characters, else the
\* last inline mention, else the sole in-chat file.
C6_PrecedenceAsStated ==
    [][OpensBlock =>
          /\ PrevGivesName => scan'.fname = Some(StripName(LastLine))
          /\ C6_Fallbacks]_vars

\* C6, amended: the same precedence, where the name taken from the preceding
\* line is its basename when the line's text is not an in-chat file and its
\* basename is.
C6_Precedence ==
    [][OpensBlock =>
          /\ PrevGivesName =>
                scan'.fname =
                    Some(IF /\ ~InList(StripName(LastLine), chat_files)
                            /\ InList(PathName(StripName(LastLine)), chat_files)
                         THEN PathName(StripName(LastLine))
                         ELSE StripName(LastLine))
          /\ C6_Fallbacks]_vars

\* a bold heading b.md opened a block as b.md although a.md was mentioned
C6_Witness ==
    /\ Len(lines) >= 3
    /\ LastLine = FenceLine
    /\ lines[Len(lines) - 1] = <<"*", "*", "b.md", "*", "*", NL>>
    /\ scan.saw_fname = Some(FileA)
    /\ scan.fname = Some(FileB)
    /\ scan.fname_source = Some("block")

\* C7: a block whose filename cannot be resolved is dropped, so every pair
\* the scanner emits has a non-empty path.
C7_NoEmptyPath ==
    \A k \in 1..Len(scan.edits) : scan.edits[k][1] # <<>>

-----------------------------------------------------------------------------
(* Claims about the registry and get_edits, under Spec *)

\* C1: after any sequence of registry operations (initial classification,
\* add in either mode, drop, promotion inside get_edits, the two helpers) no
\* path is both in editable_files and in context_files.
C1_Disjoint == editable_files \cap context_files = {}

\* a.md was made context, read-only b.md was re-added as editable, and a
\* filter pass promoted the empty name's target
C1_Witness ==
    /\ AbsA \in context_files
    /\ AbsB \in editable_files /\ AbsB \in abs_read_only_fnames
    /\ Root \in editable_files

\* the runs of apply_edits of the current batch
BatchRuns == {preview[k] : k \in 1..Len(preview)} \cup {result[k] : k \in 1..Len(result)}

\* full_path was left alone by run r: not touched, not written, unchanged
Untouched(r, full_path) ==
    /\ \A j \in 1..Len(r.applied_files) : AbsRootPath(r.applied_files[j]) # full_path
    /\ \A j \in 1..Len(r.writes) : r.writes[j][1] # full_path
    /\ r.after[full_path] = r.before[full_path]

\* C2: in get_edits -> apply_edits an edit whose resolved path is in
\* context_files is rejected by get_edits, its path is not among the touched
\* paths of apply_edits, and the batch does not write the file.
C2_ContextNeverEdited ==
    batch # None =>
        \A k \in 1..Len(batch[1].edits) :
            LET full_path == AbsRootPath(batch[1].edits[k][1])
            IN  full_path \in context_files =>
                   /\ \A j \in 1..Len(batch[1].filtered_edits) :
                         AbsRootPath(batch[1].filtered_edits[j][1]) # full_path
                   /\ \A r \in BatchRuns :
                         Untouched(r, full_path) /\ files[full_path] = r.before[full_path]

\* a batch was applied and wrote a file while one of its edits aimed at a
\* context file
C2_Witness ==
    /\ pc = "applied"
    /\ \E k \in 1..Len(batch[1].edits) :
          AbsRootPath(batch[1].edits[k][1]) \in context_files
    /\ result[1].writes # <<>>

\* C3: when get_edits returns, every edit of the returned list has a resolved
\* target that is in editable_files and not in context_files.
C3_FilteredAreEditable ==
    pc = "filtered" =>
        \A k \in 1..Len(batch[1].filtered_edits) :
            LET full_path == AbsRootPath(batch[1].filtered_edits[k][1])
            IN  full_path \in editable_files /\ full_path \notin context_files

\* get_edits returned an edit for a file that is not in the chat
C3_Witness ==
    /\ pc = "filtered"
    /\ \E k \in 1..Len(batch[1].filtered_edits) :
          AbsRootPath(batch[1].filtered_edits[k][1]) \notin abs_fnames

\* C4: get_edits runs exactly one decoder per response: the block decoder if
\* the text holds both the search-start and the replace-end marker, the fence
\* scanner otherwise (neither marker, or only one).
C4_ExclusiveDispatch ==
    batch # None =>
        batch[1].calls =
            IF /\ Contains(partial_response_content, SearchMarker)
               /\ Contains(partial_response_content, ReplaceMarker)
            THEN <<"find_original_update_blocks">>
            ELSE <<"_parse_whole_file_format">>

\* a response with the search marker alone went to the fence scanner
C4_Witness ==
    /\ pc = "filtered"
    /\ Contains(partial_response_content, SearchMarker)
    /\ ~Contains(partial_response_content, ReplaceMarker)
    /\ batch[1].calls = <<"_parse_whole_file_format">>
    /\ batch[1].filtered_edits # <<>>

-----------------------------------------------------------------------------
(* Claims about apply_edits, under SpecApply *)

\* the paths the sections of an aggregate message name, in order
RECURSIVE UpToNewline(_)
UpToNewline(s) ==
    IF s = <<>> \/ Head(s) = NL THEN <<>> ELSE <<Head(s)>> \o UpToNewline(Tail(s))

RECURSIVE SectionPaths(_)
SectionPaths(msg) ==
    IF msg = <<>> THEN <<>>
    ELSE IF Head(msg) = SectionHead
         THEN <<UpToNewline(Tail(msg))>> \o SectionPaths(Tail(msg))
         ELSE SectionPaths(Tail(msg))

\* the batch applied was one of search/replace edits on distinct existing files
C8_Case ==
    /\ pc = "applied"
    /\ LET edits == result[1].edits
       IN  /\ edits # <<>>
           /\ \A k \in 1..Len(edits) :
                 /\ Len(edits[k]) = 3
                 /\ result[1].before[AbsRootPath(edits[k][1])].kind = "file"
           /\ \A j, k \in 1..Len(edits) :
                 j # k => AbsRootPath(edits[j][1]) # AbsRootPath(edits[k][1])

\* what reconciling edit k against the file as it was before the batch gives;
\* empty when the original text is not matched
Reconciled(k) ==
    LET edit == result[1].edits[k]
    IN  DoReplace(Some(result[1].before[AbsRootPath(edit[1])].text), edit[2], edit[3])

\* the original text of edit k occurs in its file as it was before the batch
\* (an empty original text asks for nothing to be found)
OriginalMatched(k) ==
    LET edit == result[1].edits[k]
        text == result[1].before[AbsRootPath(edit[1])].text
    IN  Strip(edit[2], Whitespace) = <<>> \/ FindFirst(text, edit[2]) # 0

\* the outcome of the batch when exactly the edits in failing fail: the others
\* written with their reconciled content, the failing ones' files unchanged,
\* the error raised iff some edit fails, one section per failing edit
BatchOutcome(failing) ==
    LET r == result[1]
        failedPaths == SelectSeq(
            [k \in 1..Len(r.edits) |->
                IF k \in failing THEN Some(r.edits[k][1]) ELSE None],
            LAMBDA o : o # None)
    IN  /\ \A k \in 1..Len(r.edits) :
              LET full_path == AbsRootPath(r.edits[k][1])
              IN  IF k \in failing
                  THEN files[full_path] = r.before[full_path]
                  ELSE /\ files[full_path] = File(Reconciled(k))
                       /\ \E j \in 1..Len(r.writes) :
                             r.writes[j] = <<full_path, Reconciled(k)>>
        /\ r.raised <=> failing # {}
        /\ r.raised =>
              SectionPaths(r.message) =
                  [k \in 1..Len(failedPaths) |-> failedPaths[k][1]]

\* C8 as stated: in a non-dry-run batch of search/replace edits on distinct
\* existing files, every edit whose original text is matched has its file
\* written with the reconciled content and the write stays, every edit whose
\* original text is not matched leaves its file unchanged, and the aggregate
\* error raised has exactly one section per failed edit, naming its path, and
\* none for a successful edit.
C8_AggregateFailureAsStated ==
    C8_Case =>
        BatchOutcome({k \in 1..Len(result[1].edits) : ~OriginalMatched(k)})

\* C8, amended: the same, where the edits that fail are those whose original
\* text is not matched and those whose reconciled content is empty; only an
\* edit that reconciles to non-empty content is written.
C8_AggregateFailure ==
    C8_Case =>
        /\ BatchOutcome({k \in 1..Len(result[1].edits) : Reconciled(k) = <<>>})
        /\ \A k \in 1..Len(result[1].edits) : ~OriginalMatched(k) => Reconciled(k) = <<>>

\* of two edits on two files one matched and was written, the other did not,
\* and the error was raised
C8_Witness ==
    /\ C8_Case
    /\ Len(result[1].edits) = 2
    /\ Len(result[1].failed_edits) = 1
    /\ Len(result[1].writes) = 1
    /\ result[1].raised

\* C9: apply_edits with dry_run=True writes nothing, leaves every file as it
\* was and never raises the aggregate failure, whatever the edits and whether
\* or not they match.
C9_DryRunWritesNothing ==
    preview # None =>
        /\ preview[1].writes = <<>>
        /\ preview[1].after = preview[1].before
        /\ ~preview[1].raised
        /\ pc = "previewed" => files = preview[1].before

\* a dry run of a batch with a matching edit and a failing one
C9_Witness ==
    /\ pc = "previewed"
    /\ preview[1].applied_files # <<>>
    /\ preview[1].failed_edits # <<>>

\* C10: the list the dry run returns equals the list of applied paths the
\* real run accumulates for the same edits on the same files, also when
\* several edits target one file (stated for batches whose writes all succeed).
C10_DryRunPredicts ==
    (/\ pc = "applied"
     /\ preview # None
     /\ result[1].errors = <<>>)
        => preview[1].applied_files = result[1].applied_files

-----------------------------------------------------------------------------
(* Claims about apply_edits, continued, under SpecApply *)

\* the batch applied is one whole-file edit, repeated or not
SameWholeFileEdit ==
    /\ pc = "applied"
    /\ result[1].edits # <<>>
    /\ \A k \in 1..Len(result[1].edits) :
          /\ Len(result[1].edits[k]) = 2
          /\ result[1].edits[k] = result[1].edits[1]

\* C11: a whole-file edit (path, new_content) applied twice in a row, not as a
\* dry run, leaves the file with the content one application leaves, namely
\* new_content, whether the file existed before or not; no other file changes.
C11_WholeFileIdempotent ==
    SameWholeFileEdit =>
        LET edit == result[1].edits[1]
            full_path == AbsRootPath(edit[1])
        IN  result[1].before[full_path].kind # "dir" =>
              /\ files[full_path] = File(edit[2])
              /\ \A k \in 1..Len(result[1].writes) :
                    result[1].writes[k] = <<full_path, edit[2]>>
              /\ \A other \in AbsPaths \ {full_path} :
                    files[other] = result[1].before[other]

\* the same whole-file edit applied twice to a file that did not exist
C11_Witness ==
    /\ SameWholeFileEdit
    /\ Len(result[1].edits) = 2
    /\ result[1].before[AbsRootPath(result[1].edits[1][1])].kind = "absent"
    /\ Len(result[1].writes) = 2

-----------------------------------------------------------------------------
(* Claims about get_edits, continued *)

\* the step is a call of get_edits
GetEditsStep == pc = "idle" /\ pc' = "filtered"

\* the commands of the items of decoded that have no path, in decode order
RECURSIVE CommandsIn(_)
CommandsIn(decoded) ==
    IF decoded = <<>> THEN <<>>
    ELSE (IF Head(decoded)[1] = NoPath THEN <<Head(decoded)[2]>> ELSE <<>>)
             \o CommandsIn(Tail(decoded))

\* the items of decoded that have a path, in decode order
RECURSIVE FileEditsIn(_)
FileEditsIn(decoded) ==
    IF decoded = <<>> THEN <<>>
    ELSE (IF Head(decoded)[1] # NoPath THEN <<Head(decoded)>> ELSE <<>>)
             \o FileEditsIn(Tail(decoded))

\* what C12 asks of one step
ShellCommandsAsideStep ==
    /\ (GetEditsStep /\ batch'[1].calls = <<"find_original_update_blocks">>) =>
          LET decoded == batch'[1].decoded
          IN  /\ shell_commands' = shell_commands \o CommandsIn(decoded)
              /\ batch'[1].edits = FileEditsIn(decoded)
              /\ \A k \in 1..Len(batch'[1].filtered_edits) :
                    batch'[1].filtered_edits[k][1] # NoPath
    /\ (pc' = "applied") =>
          \A k \in 1..Len(result'[1].edits) : result'[1].edits[k][1] # NoPath

\* C12 (under SpecExtract): when get_edits calls the block decoder, the
\* commands of the decoded items whose path is None are appended to
\* shell_commands in decode order, exactly the items with a path are handed to
\* the filter, and no item without a path is in the list get_edits returns or
\* in the list apply_edits is given.
C12_ShellCommandsAside == [][ShellCommandsAsideStep]_vars

\* a decoded list of a command and a file edit, after an earlier other command
C12_Witness ==
    /\ pc = "applied"
    /\ batch[1].decoded = << <<NoPath, <<"pwd", NL>>>>, <<FileA, TextX, TextY>> >>
    /\ shell_commands = << <<"ls", NL>>, <<"pwd", NL>> >>
    /\ result[1].edits = << <<FileA, TextX, TextY>> >>

\* what C13 asks of one step
PromotionStep ==
    GetEditsStep =>
        /\ context_files' = context_files
        /\ \A k \in 1..Len(batch'[1].edits) :
              LET edit == batch'[1].edits[k]
                  full_path == AbsRootPath(edit[1])
              IN  (full_path \notin editable_files /\ full_path \notin context_files) =>
                      /\ full_path \in editable_files'
                      /\ InList(edit, batch'[1].filtered_edits)

\* C13 (under Spec): when get_edits filters an edit whose resolved path is in
\* neither editable_files nor context_files, the path is added to
\* editable_files and the edit is kept in the returned list, for both kinds of
\* edit and whether or not the file exists.
C13_AutoPromotion == [][PromotionStep]_vars

\* a kept search/replace edit of a file that does not exist and was never
\* added to the chat, in a session where a whole-file edit was promoted before
C13_Witness ==
    /\ pc = "filtered"
    /\ Len(batch[1].filtered_edits) = 1
    /\ LET edit == batch[1].filtered_edits[1]
           full_path == AbsRootPath(edit[1])
       IN  /\ Len(edit) = 3
           /\ files[full_path].kind = "absent"
           /\ full_path \in editable_files
           /\ full_path \notin abs_fnames
    /\ Root \in editable_files

-----------------------------------------------------------------------------
(* Claims about apply_edits, continued, under SpecApply *)

\* run r holds a whole-file edit of full_path, the only kind that creates a file
HasWholeFileEditOf(r, full_path) ==
    \E j \in 1..Len(r.edits) :
        Len(r.edits[j]) = 2 /\ AbsRootPath(r.edits[j][1]) = full_path

\* the number of items of list equal to x
Count(list, x) == Cardinality({j \in 1..Len(list) : list[j] = x})

\* C14: a search/replace edit whose target file does not exist is recorded as
\* failed without do_replace being called for it, and the edit never creates
\* the file: unless a whole-file edit of the batch creates it, the file is
\* still missing after the batch, also when the original text is empty.
C14_MissingTargetFails ==
    \A r \in BatchRuns :
        \A k \in 1..Len(r.edits) :
            LET edit == r.edits[k]
                full_path == AbsRootPath(edit[1])
            IN  (/\ Len(edit) = 3
                 /\ r.before[full_path].kind = "absent"
                 /\ ~HasWholeFileEditOf(r, full_path)) =>
                    /\ Count(r.failed_edits, edit) = Count(r.edits, edit)
                    /\ \A j \in 1..Len(r.reconciles) : r.reconciles[j][1] # full_path
                    /\ \A j \in 1..Len(r.writes) : r.writes[j][1] # full_path
                    /\ \A j \in 1..Len(r.applied_files) :
                          AbsRootPath(r.applied_files[j]) # full_path
                    /\ r.after[full_path] = Absent

\* an applied batch of two edits, one with an empty original text on a file
\* that does not exist
C14_Witness ==
    /\ pc = "applied"
    /\ Len(result[1].edits) = 2
    /\ \E k \in 1..2 :
          LET edit == result[1].edits[k]
          IN  /\ Len(edit) = 3 /\ edit[2] = <<>>
              /\ result[1].before[AbsRootPath(edit[1])].kind = "absent"
              /\ InList(edit, result[1].failed_edits)
              /\ files[AbsRootPath(edit[1])] = Absent
    /\ result[1].writes # <<>>

RaisingWrites(r) ==
    SelectSeq(r.edits, LAMBDA e : Len(e) = 2 /\ r.before[AbsRootPath(e[1])].kind = "dir")

\* C16: when the write of a whole-file edit raises, the failure is reported
\* with tool_error for that path, the path is not added to the touched list,
\* the other edits of the batch are still attempted, and apply_edits does not
\* raise unless a search/replace edit failed.
C16_WriteErrorReported ==
    result # None =>
        LET r == result[1]
            raising == RaisingWrites(r)
        IN  /\ Len(r.errors) = Len(raising)
            /\ \A j \in 1..Len(raising) :
                  /\ StartsWith(r.errors[j], <<"Failed to write ">> \o raising[j][1])
                  /\ \A i \in 1..Len(r.applied_files) :
                        AbsRootPath(r.applied_files[i]) # AbsRootPath(raising[j][1])
                  /\ r.after[AbsRootPath(raising[j][1])] = Directory
            /\ r.attempts = r.edits
            /\ Len(r.applied_files) + Len(r.failed_edits) = Len(r.edits) - Len(raising)
            /\ r.failed_edits = <<>> => (~r.raised /\ r.returned = Some(r.applied_files))
            /\ pc = "applied" =>
                  /\ Len(tool_errors) >= Len(r.errors)
                  /\ SubSeq(tool_errors, Len(tool_errors) - Len(r.errors) + 1,
                            Len(tool_errors)) = r.errors

\* the write of the first edit raised, the second edit was written, and
\* apply_edits returned the second path
C16_Witness ==
    /\ pc = "applied"
    /\ Len(result[1].edits) = 2
    /\ RaisingWrites(result[1]) = <<result[1].edits[1]>>
    /\ tool_errors # <<>>
    /\ Len(result[1].writes) = 1
    /\ result[1].returned = Some(<<result[1].edits[2][1]>>)

-----------------------------------------------------------------------------
(* Claims about the fence scanner, continued, under SpecScan *)

\* C17: on every text, with any list of in-chat files, the empty one included,
\* the scanner raises nothing: while lines are left the loop can take the next
\* one, at the end of the text the function returns, and what it returns is a
\* list of (path, content) pairs.
C17_ScannerReturns ==
    /\ spc # "raised"
    /\ scan.error = None
    /\ spc = "scan" => ENABLED ScanEnd
    /\ (spc = "scan" /\ Len(lines) < MaxLines) => ENABLED ScanLine
    /\ \A k \in 1..Len(scan.edits) : Len(scan.edits[k]) = 2

\* the scanner returned pairs for a text that starts with a fence, with no
\* file in the chat
C17_Witness ==
    /\ spc = "done"
    /\ chat_files = <<>>
    /\ Len(lines) >= 3
    /\ IsFenceLine(lines[1], fence)
    /\ scan.edits # <<>>

\* the number of fence lines among ls
FenceCount(ls) == Cardinality({k \in 1..Len(ls) : IsFenceLine(ls[k], fence)})

\* the step takes a fence line
FenceStep == spc = "scan" /\ Len(lines') = Len(lines) + 1 /\ IsFenceLine(lines'[Len(lines')], fence)

\* what C18 asks of one step: the fence lines alternate, the odd ones opening
\* and the even ones closing
FencesAlternateStep ==
    FenceStep =>
        IF FenceCount(lines) % 2 = 1
        THEN \* a closing fence: no block is open after it
             scan'.fname = None
        ELSE \* an opening fence: nothing is emitted on it
             scan'.edits = scan.edits

\* C18: every line that starts with either half of the fence pair toggles the
\* fence state, so that fence lines alternate between opening and closing: the
\* fence line after the opening fence of a skipped block closes that block and
\* is never taken for the opening of a new block, also when the first fence is
\* the first line of the text.
C18_FencesAlternate == [][FencesAlternateStep]_vars

\* the index of the last fence line among lines, 0 if there is none
LastFence ==
    LET at == {k \in 1..Len(lines) : IsFenceLine(lines[k], fence)}
    IN  IF at = {} THEN 0 ELSE CHOOSE k \in at : \A j \in at : j <= k

\* what C19 asks of one step of the loop
BlockContentStep ==
    (spc = "scan" /\ Len(lines') = Len(lines) + 1) =>
        IF Len(scan'.edits) = Len(scan.edits) + 1
        THEN \* a pair is emitted: on a closing fence, with the lines since the
             \* opening fence
             /\ IsFenceLine(lines'[Len(lines')], fence)
             /\ FenceCount(lines) % 2 = 1
             /\ scan'.edits[Len(scan'.edits)][2] =
                    Join(SubSeq(lines, LastFence + 1, Len(lines)))
             /\ SubSeq(scan'.edits, 1, Len(scan.edits)) = scan.edits
        ELSE scan'.edits = scan.edits

\* C19: the content of every pair emitted on a closing fence is the
\* concatenation, in order and with their terminators, of exactly the lines
\* strictly between the block's opening fence line and its closing fence line;
\* no fence line and no line outside the block is part of an emitted content.
C19_BlockContent == [][BlockContentStep]_vars

\* what C20 asks of the step that opens a block under a line that gives a name
CollapseStep ==
    (OpensBlock /\ PrevGivesName) =>
        LET name == StripName(LastLine)
            base == PathName(name)
        IN  /\ (~InList(name, chat_files) /\ InList(base, chat_files))
                   => scan'.fname = Some(base)
            /\ (InList(name, chat_files) \/ ~InList(base, chat_files))
                   => scan'.fname = Some(name)
            /\ scan'.fname_source = Some("block")

\* C20: when the name read off the preceding line is non-empty, is not an
\* in-chat file and its basename is one, the filename is the basename; when
\* the name is itself an in-chat file, or its basename is not one, the name is
\* kept unchanged.
C20_BogusDirCollapse == [][CollapseStep]_vars

\* path/a.md above the fence opened a block for a.md, the only file in the chat
C20_Witness ==
    /\ spc = "scan"
    /\ chat_files = <<FileA>>
    /\ lines = <<PathA \o <<NL>>, FenceLine>>
    /\ scan.fname = Some(FileA)
    /\ scan.fname_source = Some("block")

\* the line before the last fence line is longer, stripped, than a name may be
LongLineBeforeLastFence ==
    /\ LastFence > 1
    /\ StrLen(StripName(lines[LastFence - 1])) > MaxFnameLen

\* what C21 asks of one step
LongNameStep ==
    /\ \* the fence under an over-long line takes the fallbacks
       (OpensBlock /\ lines # <<>> /\ StrLen(StripName(LastLine)) > MaxFnameLen) =>
           /\ scan.saw_fname # None => scan'.fname = scan.saw_fname
           /\ (scan.saw_fname = None /\ Len(chat_files) = 1)
                  => scan'.fname = Some(chat_files[1])
    /\ \* a pair emitted for a block under an over-long line names a fallback
       \* file; with no fallback the block is skipped and nothing is emitted
       (spc = "scan" /\ Len(scan'.edits) = Len(scan.edits) + 1
            /\ LongLineBeforeLastFence) =>
           InList(scan'.edits[Len(scan'.edits)][1], chat_files)
    /\ \A k \in 1..Len(scan'.edits) : StrLen(scan'.edits[k][1]) <= MaxFnameLen

\* C21: a preceding line whose stripped form is longer than 250 characters is
\* treated as absent: it is never the filename, the block's filename is the
\* last backtick mention, else the sole in-chat file, else the block is
\* skipped; so no emitted path is longer than 250 characters.
C21_LongNameAbsent == [][LongNameStep]_vars

\* the in-chat file a token names in backticks, trailing punctuation aside
TokenFile(token) ==
    LET word == RStrip(token, {".", ":", ",", ";", "!"})
        named == {k \in 1..Len(chat_files) : word = <<BT>> \o chat_files[k] \o <<BT>>}
    IN  IF named = {} THEN None
        ELSE Some(chat_files[CHOOSE k \in named : \A j \in named : j <= k])

\* the file the last naming token of line names, else saw
LastMention(line, saw) ==
    LET tokens == Split(line)
        naming == {k \in 1..Len(tokens) : TokenFile(tokens[k]) # None}
    IN  IF naming = {} THEN saw
        ELSE TokenFile(tokens[CHOOSE k \in naming : \A j \in naming : j <= k])

\* what C22 asks of one step
LastMentionedStep ==
    /\ (spc = "scan" /\ Len(lines') = Len(lines) + 1) =>
          LET line == lines'[Len(lines')]
          IN  IF IsFenceLine(line, fence) \/ FenceCount(lines) % 2 = 1
              THEN \* a fence line, or a line inside a block
                   scan'.saw_fname = scan.saw_fname
              ELSE scan'.saw_fname = LastMention(line, scan.saw_fname)
    /\ (spc = "scan" /\ lines' = lines) => scan'.saw_fname = scan.saw_fname
    /\ scan'.saw_fname # None => InList(scan'.saw_fname[1], chat_files)

\* C22: the last mentioned filename changes only on lines outside any block: a
\* token that, without trailing . : , ; !, is an in-chat file in backticks
\* sets it, the latest match winning, and it persists across later blocks;
\* lines inside an open block, a skipped block included, never change it; it
\* only ever holds an in-chat file.
C22_LastMentioned == [][LastMentionedStep]_vars

\* the step is the end of the text
EndStep == spc = "scan" /\ spc' = "done"

\* the lines taken since the last fence line
SinceLastFence == SubSeq(lines, LastFence + 1, Len(lines))

\* what C23 asks of one step, for a block open with a resolved filename
FinalPairStep ==
    /\ (EndStep /\ Truthy(scan.fname)) =>
          IF SinceLastFence # <<>>
          THEN scan'.edits = Append(scan.edits, <<scan.fname[1], Join(SinceLastFence)>>)
          ELSE scan'.edits = scan.edits
    /\ (FenceStep /\ Truthy(scan.fname)) =>
          scan'.edits = Append(scan.edits, <<scan.fname[1], Join(SinceLastFence)>>)

\* C23: at the end of the text a block that is still open with a resolved
\* filename is emitted as a final pair iff it has at least one line; with no
\* line it emits nothing, whereas a block closed by a fence line is emitted
\* also with no line, its content empty.
C23_FinalPair == [][FinalPairStep]_vars

\* a block closed at once was emitted with empty content; the block opened
\* after it was still empty at the end of the text and emitted nothing
C23_Witness ==
    /\ spc = "done"
    /\ lines = <<FenceLine, FenceLine, FenceLine>>
    /\ scan.fname = Some(FileA)
    /\ scan.edits = << <<FileA, <<>>>> >>

-----------------------------------------------------------------------------
(* Claims about the classification registry *)

\* C24 (under SpecClassify): after the classification at construction a path
\* of both initial lists is in context_files and not in editable_files, every
\* other path of the initial editable list is in editable_files, and every
\* read-only path is in context_files.
C24_ContextWinsTies ==
    pc = "idle" =>
        /\ \A p \in abs_fnames \cap abs_read_only_fnames :
              p \in context_files /\ p \notin editable_files
        /\ \A p \in abs_fnames \ abs_read_only_fnames : p \in editable_files
        /\ \A p \in abs_read_only_fnames : p \in context_files

\* a.md was in both lists, b.md in the editable list only
C24_Witness ==
    /\ pc = "idle"
    /\ abs_fnames = {AbsA, AbsB}
    /\ abs_read_only_fnames = {AbsA}
    /\ context_files = {AbsA}
    /\ editable_files = {AbsB}

\* the classification of every path but p is the same before and after
OthersKept(p) ==
    \A q \in (editable_files \cup context_files
                \cup editable_files' \cup context_files') \ {p} :
        /\ q \in editable_files' <=> q \in editable_files
        /\ q \in context_files' <=> q \in context_files

RegistryOpStep ==
    /\ \A fname \in RelFnames, mode \in Modes :
          AddRelFname(fname, mode) =>
              LET p == AbsRootPath(fname)
              IN  /\ mode = "context" =>
                        p \in context_files' /\ p \notin editable_files'
                  /\ mode # "context" =>
                        p \in editable_files' /\ p \notin context_files'
                  /\ OthersKept(p)
    /\ \A fname \in RelFnames :
          DropRelFname(fname) =>
              LET p == AbsRootPath(fname)
              IN  /\ p \notin editable_files' /\ p \notin context_files'
                  /\ OthersKept(p)

\* C25: add_rel_fname(path, mode) leaves the path in context_files and not in
\* editable_files when mode is 'context', and in editable_files and not in
\* context_files for any other mode, whatever its classification was before;
\* drop_rel_fname(path) leaves it in neither set; neither operation changes
\* the classification of any other path.
C25_AddAndDrop == [][RegistryOpStep]_vars

\* read-only b.md was re-added as editable and a.md was added as context
C25_Witness ==
    /\ pc = "idle"
    /\ AbsB \in abs_read_only_fnames
    /\ AbsB \in editable_files /\ AbsB \notin context_files
    /\ AbsA \in context_files /\ AbsA \notin editable_files
    /\ Root \notin editable_files

-----------------------------------------------------------------------------
(* Claims about the filter pass of get_edits *)

\* the resolved paths of the edits get_edits returned
KeptPaths(b) == {AbsRootPath(b.filtered_edits[k][1]) : k \in 1..Len(b.filtered_edits)}

FilterFrameStep ==
    GetEditsStep =>
        /\ context_files' = context_files
        /\ editable_files \subseteq editable_files'
        /\ editable_files' \ editable_files = KeptPaths(batch'[1]) \ editable_files

\* C26, as amended (under Spec): a get_edits filter pass leaves context_files
\* unchanged and removes nothing from editable_files; what it adds to
\* editable_files is exactly the resolved paths of the edits it keeps that
\* were not in it.
C26_FilterFrame == [][FilterFrameStep]_vars

RegistryReadOnlyStep ==
    GetEditsStep => UNCHANGED <<editable_files, context_files>>

\* C26, as stated: a get_edits filter pass leaves both editable_files and
\* context_files unchanged.
C26_RegistryReadOnly == [][RegistryReadOnlyStep]_vars

\* a pass that kept an edit of the empty name while b.md was context: the
\* root path is editable now, the context set is as it was
C26_Witness ==
    /\ pc = "filtered"
    /\ Root \in KeptPaths(batch[1])
    /\ Root \in editable_files
    /\ context_files = {AbsB}
    /\ abs_fnames = {}

\* edit targets a path of the context set
TargetsContext(edit) == AbsRootPath(edit[1]) \in context_files

FilterContinuesStep ==
    GetEditsStep =>
        LET edits == batch'[1].edits
            rejected == SelectSeq(edits, TargetsContext)
        IN  /\ batch'[1].filtered_edits =
                   SelectSeq(edits, LAMBDA e : ~TargetsContext(e))
            /\ tool_errors' = tool_errors \o
                   [k \in 1..Len(rejected) |-> ContextOnlyError(rejected[k][1])]

\* C27 (under Spec): an edit of a context file does not stop the filter pass:
\* each such edit sends exactly one diagnostic to tool_error and is dropped,
\* every other edit is kept, so get_edits returns the edit list without the
\* edits of context files, in the original order.
C27_FilterContinues == [][FilterContinuesStep]_vars

\* a pass over two edits: the first, of context file b.md, was reported and
\* dropped, the second, after it, was kept
C27_Witness ==
    /\ pc = "filtered"
    /\ Len(batch[1].edits) = 2
    /\ TargetsContext(batch[1].edits[1])
    /\ batch[1].filtered_edits = <<batch[1].edits[2]>>
    /\ tool_errors = <<ContextOnlyError(batch[1].edits[1][1])>>

-----------------------------------------------------------------------------
(* Claims about one search/replace edit, the failure report and the batch *)

\* the applicator's state in run r once its first k edits are done
StateAfter(r, k) == ApplyLoop(ApplyInit(r.before), SubSeq(r.edits, 1, k), 1, r.dry_run)

\* what search/replace edit k of run r does to a target that exists
SearchReplaceEffect(r, k) ==
    LET edit == r.edits[k]
        full_path == AbsRootPath(edit[1])
        pre == StateAfter(r, k - 1)
        post == StateAfter(r, k)
        new_content == DoReplace(ReadText(pre.fs, full_path), edit[2], edit[3])
    IN  IF new_content # <<>>
        THEN /\ post.applied_files = Append(pre.applied_files, edit[1])
             /\ post.failed_edits = pre.failed_edits
             /\ post.fs = IF r.dry_run THEN pre.fs
                          ELSE [pre.fs EXCEPT ![full_path] = File(new_content)]
        ELSE /\ post.failed_edits = Append(pre.failed_edits, edit)
             /\ post.applied_files = pre.applied_files
             /\ post.fs = pre.fs

\* C28 (under SpecApply): a search/replace edit whose target exists succeeds
\* when the reconciliation gives non-empty content: its path is appended to
\* the touched list and, unless the run is a dry run, the file's content
\* becomes exactly that result. When the result is empty or missing, also
\* when the right new content is the empty text, the edit is recorded as
\* failed, its path is not appended and the file is unchanged.
C28_SearchReplaceEdit ==
    \A r \in BatchRuns :
        /\ StateAfter(r, Len(r.edits)).fs = r.after
        /\ StateAfter(r, Len(r.edits)).applied_files = r.applied_files
        /\ StateAfter(r, Len(r.edits)).failed_edits = r.failed_edits
        /\ \A k \in 1..Len(r.edits) :
              (/\ Len(r.edits[k]) = 3
               /\ Exists(StateAfter(r, k - 1).fs, AbsRootPath(r.edits[k][1]))) =>
                  SearchReplaceEffect(r, k)

\* an applied batch of two edits of a.md: the first replaced its whole text
\* and was written, the second asked to replace the new text by nothing and
\* failed, so the file holds the first edit's result
C28_Witness ==
    /\ pc = "applied"
    /\ Len(result[1].edits) = 2
    /\ \A k \in 1..2 : Len(result[1].edits[k]) = 3 /\ result[1].edits[k][1] = FileA
    /\ result[1].before[AbsA].kind = "file"
    /\ result[1].edits[1][2] = result[1].before[AbsA].text
    /\ result[1].edits[2][2] = result[1].edits[1][3]
    /\ result[1].edits[2][3] = <<>>
    /\ result[1].applied_files = <<FileA>>
    /\ result[1].failed_edits = <<result[1].edits[2]>>
    /\ files[AbsA] = File(result[1].edits[1][3])

\* run r has a search/replace edit of path
HasSearchReplaceEditOf(r, path) ==
    \E j \in 1..Len(r.edits) : Len(r.edits[j]) = 3 /\ r.edits[j][1] = path

\* the edits of run r that were recorded as failed when their turn came, in
\* the order of the edit list
FailedInOrder(r) ==
    LET marks == [k \in 1..Len(r.edits) |->
                     IF StateAfter(r, k).failed_edits # StateAfter(r, k - 1).failed_edits
                     THEN Some(r.edits[k]) ELSE None]
        hits == SelectSeq(marks, LAMBDA o : o # None)
    IN  [k \in 1..Len(hits) |-> hits[k][1]]

\* C29 (under SpecApply): the message of the aggregate failure lists the
\* failed search/replace edits in the order they have in the edit list, one
\* section each; the count in its header is the number of failed
\* search/replace edits; it ends with the exact-match instruction; and no
\* whole-file edit has a section.
C29_FailureReport ==
    (result # None /\ result[1].raised) =>
        LET r == result[1]
            failed == FailedInOrder(r)
            msg == r.message
        IN  /\ r.failed_edits = failed
            /\ \A k \in 1..Len(failed) : Len(failed[k]) = 3
            /\ SectionPaths(msg) = [k \in 1..Len(failed) |-> failed[k][1]]
            /\ SubSeq(msg, 1, 3) = <<"# ", ToString(Len(failed)), " SEARCH/REPLACE ">>
            /\ msg[4] = IF Len(failed) = 1 THEN "block" ELSE "blocks"
            /\ SubSeq(msg, Len(msg) - 1, Len(msg)) = <<MatchInstruction, NL>>
            /\ \A k \in 1..Len(r.edits) :
                  (Len(r.edits[k]) = 2 /\ ~HasSearchReplaceEditOf(r, r.edits[k][1])) =>
                      ~InList(r.edits[k][1], SectionPaths(msg))

\* two edits failed, first the one of b.md, then the one of a.md, and the
\* message has their sections in that order
C29_Witness ==
    /\ pc = "applied"
    /\ result[1].raised
    /\ Len(result[1].failed_edits) = 2
    /\ SectionPaths(result[1].message) = <<FileB, FileA>>

\* the text edit k of run r asks to be on disk: the content of a whole-file
\* edit, the reconciled content of a search/replace edit
TextAsked(r, k) ==
    LET edit == r.edits[k]
    IN  IF Len(edit) = 2 THEN edit[2]
        ELSE DoReplace(ReadText(StateAfter(r, k - 1).fs, AbsRootPath(edit[1])),
                       edit[2], edit[3])

\* edit k of run r was committed: at its turn its file was written with the
\* text it asks for
Committed(r, k) ==
    LET full_path == AbsRootPath(r.edits[k][1])
        pre == StateAfter(r, k - 1)
        post == StateAfter(r, k)
    IN  /\ post.writes = Append(pre.writes, <<full_path, TextAsked(r, k)>>)
        /\ post.fs = [pre.fs EXCEPT ![full_path] = File(TextAsked(r, k))]

\* the write of whole-file edit k of run r raises: its target is a directory
WriteOfRaises(r, k) ==
    /\ Len(r.edits[k]) = 2
    /\ StateAfter(r, k - 1).fs[AbsRootPath(r.edits[k][1])].kind = "dir"

\* the run is the one StateAfter replays, and every edit had its turn
RanToCompletion(r) ==
    /\ r.attempts = r.edits
    /\ StateAfter(r, Len(r.edits)).fs = r.after
    /\ StateAfter(r, Len(r.edits)).writes = r.writes

-----------------------------------------------------------------------------
(* Claims about who writes the classification registry *)

\* a run of apply_edits, dry or not
ApplyStep == pc \in {"filtered", "previewed"} /\ pc' \in {"previewed", "applied"}

\* a registry operation called between batches
BetweenBatchesStep == pc = "idle" /\ pc' = "idle"

ApplyFrameStep ==
    /\ ApplyStep => UNCHANGED <<editable_files, context_files>>
    /\ (editable_files' # editable_files \/ context_files' # context_files) =>
          (GetEditsStep \/ BetweenBatchesStep)

\* C31 (under Spec): apply_edits never changes the registry: editable_files
\* and context_files are the same before and after every run, dry or not,
\* raising or not; the registry changes only in the filter pass of get_edits
\* and in the add and drop calls made between batches.
C31_ApplyFrame == [][ApplyFrameStep]_vars

\* after a dry run, the real run raised for a failed edit of a.md and wrote
\* nothing to the registry: a.md is editable as the filter pass left it and
\* b.md is context
C31_Witness ==
    /\ pc = "applied"
    /\ preview # None
    /\ result[1].raised
    /\ \E k \in 1..Len(result[1].failed_edits) : result[1].failed_edits[k][1] = FileA
    /\ AbsA \in editable_files
    /\ context_files = {AbsB}

\* the step lifts the protection of p by an explicit call
ExplicitlyLifted(p) ==
    \/ \E fname \in RelFnames, mode \in Modes \ {"context"} :
          AbsRootPath(fname) = p /\ AddRelFname(fname, mode)
    \/ \E fname \in RelFnames : AbsRootPath(fname) = p /\ DropRelFname(fname)

\* the step only adds to editable_files, if it writes the registry at all
OnlyPromotes ==
    /\ context_files' = context_files
    /\ editable_files \subseteq editable_files'

ContextProtectionStep ==
    /\ \A p \in context_files : p \notin context_files' => ExplicitlyLifted(p)
    /\ GetEditsStep => OnlyPromotes
    /\ ApplyStep => OnlyPromotes
    /\ \A abs_fname \in {AbsA, AbsB} :
          /\ AddEditableFileIfNotContext(abs_fname) => OnlyPromotes
          /\ EnsureFileIsTracked(abs_fname) => OnlyPromotes

\* C32 (under Spec): a path leaves context_files only through add_rel_fname
\* with a mode other than 'context' or through drop_rel_fname; get_edits,
\* apply_edits, _add_editable_file_if_not_context and _ensure_file_is_tracked
\* never remove a path from context_files, never add one to it, and never
\* remove a path from editable_files.
C32_ContextProtection == [][ContextProtectionStep]_vars

\* a.md was made context by an add call and is still context only, while
\* b.md, never added to the chat, was made editable by a helper or a filter
\* pass
C32_Witness ==
    /\ pc = "idle"
    /\ AbsA \in context_files /\ AbsA \notin editable_files
    /\ AbsA \in abs_fnames
    /\ AbsB \in editable_files /\ AbsB \notin abs_fnames
    /\ abs_read_only_fnames = {}

\* the edits of list that target full_path
EditsOf(list, full_path) == SelectSeq(list, LAMBDA e : AbsRootPath(e[1]) = full_path)

DropThenEditStep ==
    /\ \A fname \in RelFnames :
          (AbsRootPath(fname) \in context_files /\ DropRelFname(fname)) =>
              /\ AbsRootPath(fname) \notin context_files'
              /\ AbsRootPath(fname) \notin editable_files'
    /\ GetEditsStep =>
          \A p \in AbsPaths :
              LET asked == EditsOf(batch'[1].edits, p)
                  kept == EditsOf(batch'[1].filtered_edits, p)
              IN  /\ (p \notin context_files /\ p \notin editable_files
                                           /\ asked # <<>>) =>
                        p \in editable_files' /\ kept = asked
                  /\ (p \in context_files /\ p \in context_files') => kept = <<>>
    /\ (pc = "filtered" /\ pc' = "applied") =>
          /\ result'[1].edits = batch[1].filtered_edits
          /\ result'[1].attempts = batch[1].filtered_edits

\* C33 (under Spec): drop_rel_fname on a path of context_files leaves it in
\* neither set; a filter pass that finds a path in neither set and has edits
\* for it puts it in editable_files and keeps those edits, which apply_edits
\* is then given and attempts; a path that is in context_files before and
\* after a filter pass has none of its edits kept.
C33_DropThenEdit == [][DropThenEditStep]_vars

\* b.md was read-only, hence context, at the start; it was dropped, an edit
\* of it was then kept by a filter pass that made it editable, and the edit
\* was written
C33_Witness ==
    /\ pc = "applied"
    /\ AbsB \in abs_read_only_fnames
    /\ AbsB \notin context_files /\ AbsB \notin abs_fnames
    /\ AbsB \in editable_files
    /\ EditsOf(batch[1].filtered_edits, AbsB) # <<>>
    /\ \E j \in 1..Len(result[1].writes) : result[1].writes[j][1] = AbsB

-----------------------------------------------------------------------------
(* Claims about the order of the edits of a batch *)

\* the text of full_path after the writes of the list: that of the last write
\* to it, or what it was before when none wrote it
RECURSIVE ContentAfter(_, _, _)
ContentAfter(writes, full_path, before) ==
    IF writes = <<>> THEN before
    ELSE IF writes[Len(writes)][1] = full_path
         THEN File(writes[Len(writes)][2])
         ELSE ContentAfter(SubSeq(writes, 1, Len(writes) - 1), full_path, before)

\* what edit k of run r finds in its file: what the earlier edits of the
\* batch wrote to it, or the file as it was before the batch
Observed(r, k) ==
    LET full_path == AbsRootPath(r.edits[k][1])
    IN  ContentAfter(StateAfter(r, k - 1).writes, full_path, r.before[full_path])

\* edit k of run r succeeds on what it finds
Succeeds(r, k) ==
    LET edit == r.edits[k]
        seen == Observed(r, k)
    IN  IF Len(edit) = 2 THEN seen.kind # "dir"
        ELSE /\ seen.kind = "file"
             /\ DoReplace(Some(seen.text), edit[2], edit[3]) # <<>>

\* the text edit k of run r writes when it succeeds
Written(r, k) ==
    LET edit == r.edits[k]
    IN  IF Len(edit) = 2 THEN edit[2]
        ELSE DoReplace(Some(Observed(r, k).text), edit[2], edit[3])

\* the items of list at the indexes where keep holds, in order
Pick(list, keep(_)) ==
    LET marks == [k \in 1..Len(list) |-> IF keep(k) THEN Some(list[k]) ELSE None]
        hits == SelectSeq(marks, LAMBDA o : o # None)
    IN  [k \in 1..Len(hits) |-> hits[k][1]]

\* C34 (under SpecApply): in a batch that is not a dry run the edits are
\* applied in list order and each edit finds the files as the earlier edits
\* of the batch left them: a search/replace edit is reconciled against what
\* earlier edits wrote to its file, the final content of a file is that of
\* the last successful edit of it (the last whole-file edit when several
\* target it), and the touched list has one entry per successful edit, in
\* edit order.
C34_EditsInOrder ==
    result # None =>
        LET r == result[1]
            n == Len(r.edits)
            ok(k) == Succeeds(r, k)
            steps == [k \in 1..n |-> <<AbsRootPath(r.edits[k][1]), Written(r, k)>>]
        IN  /\ r.attempts = r.edits
            /\ r.writes = Pick(steps, ok)
            /\ r.applied_files = Pick([k \in 1..n |-> r.edits[k][1]], ok)
            /\ \A p \in AbsPaths : r.after[p] = ContentAfter(r.writes, p, r.before[p])
            /\ \A k \in 1..n :
                  (/\ Len(r.edits[k]) = 2 /\ ok(k)
                   /\ \A j \in (k + 1)..n :
                         AbsRootPath(r.edits[j][1]) # AbsRootPath(r.edits[k][1])) =>
                      r.after[AbsRootPath(r.edits[k][1])] = File(r.edits[k][2])

\* a.md held y: the whole-file edit wrote x to it, and the search/replace
\* edit after it, which asks for x, matched what the first had written
C34_Witness ==
    /\ pc = "applied"
    /\ result[1].before[AbsA] = File(TextY)
    /\ result[1].edits = << <<FileA, TextX>>, <<FileA, TextX, TextY>> >>
    /\ result[1].applied_files = <<FileA, FileA>>
    /\ result[1].writes = << <<AbsA, TextX>>, <<AbsA, TextY>> >>
    /\ files[AbsA] = File(TextY)

-----------------------------------------------------------------------------
(* The API server: POST /command                                           *)
(* Flask serves each request on a thread of its own, so the handlers of     *)
(* several requests interleave at every statement that is not under         *)
(* command_lock.  A request is a process; its position is requests[r].pc:   *)
(* "new" (not yet in the handler), "locked" (inside "with command_lock",    *)
(* before the test), "setting" (the test found the flag clear), "accepted"  *)
(* (the flag is set, before get_json), "executing" (inside                  *)
(* _execute_command), "returned" (the result is there, the flag not yet     *)
(* cleared), "cleared" (before the response is built), "done".              *)

NumRequests == 2
Requests == 1..NumRequests
NoRequest == <<>>

MaxCaptured == 1
MaxAsks == 1

\* the (question, subject) pairs confirm_ask is called with
Questions == {"Add URL to the chat?", "Run shell command?"}

\* the kinds of value of the 'command' field: a slash command, a chat
\* message, and a value that is not a string
CommandKinds == {"slash", "chat", "malformed"}

NewRequest ==
    [pc |-> "new", command |-> None, answers |-> <<>>, status |-> None,
     output |-> <<>>, prompt_data |-> None, code |-> None]

\* "\n".join(lines)
RECURSIVE JoinLines(_)
JoinLines(ls) ==
    IF ls = <<>> THEN <<>>
    ELSE IF Len(ls) = 1 THEN <<ls[1]>>
    ELSE <<ls[1], NL>> \o JoinLines(Tail(ls))

\* the prompt_data of confirm_ask, with the defaults of its other arguments
PromptData(question_id) ==
    [question |-> question_id, default |-> "y", type |-> "confirmation"]

InitApi ==
    /\ PipelineOff
    /\ spc = "off" /\ chat_files = <<>> /\ fence = DefaultFence
    /\ lines = <<>> /\ scan = ScanInit
    /\ command_in_progress = FALSE
    /\ command_lock = NoRequest
    /\ requests = [r \in Requests |-> NewRequest]
    /\ captured_lines = <<>>
    /\ pending_prompt = None
    /\ never_prompts \in {{}, {"Run shell command?"}}
    /\ num_user_asks = 0
    /\ state = <<>> /\ prompt_preferences = <<>>
    /\ asks = <<>> /\ runs = <<>> /\ clicks = 0

ApiFrame ==
    UNCHANGED <<registryVars, batchVars, scanVars, guiVars>>

\* a plausible slip: the test and the set are made without the lock
Acquire_NoLock(r) ==
    /\ requests[r].pc = "new"
    /\ command_lock' = Some(r)
    /\ requests' = [requests EXCEPT ![r].pc = "locked"]
    /\ UNCHANGED <<command_in_progress, captured_lines, pending_prompt, ioVars>>
    /\ ApiFrame

\* "with self.command_lock:" is entered
Acquire(r) ==
    /\ requests[r].pc = "new"
    /\ command_lock = NoRequest
    /\ command_lock' = Some(r)
    /\ requests' = [requests EXCEPT ![r].pc = "locked"]
    /\ UNCHANGED <<command_in_progress, captured_lines, pending_prompt, ioVars>>
    /\ ApiFrame

\* "if self.command_in_progress:": 409 and the lock released, or on to the set
Test(r) ==
    /\ requests[r].pc = "locked"
    /\ IF command_in_progress
       THEN /\ requests' = [requests EXCEPT ![r].pc = "done", ![r].code = Some(409)]
            /\ command_lock' = NoRequest
       ELSE /\ requests' = [requests EXCEPT ![r].pc = "setting"]
            /\ command_lock' = command_lock
    /\ UNCHANGED <<command_in_progress, captured_lines, pending_prompt, ioVars>>
    /\ ApiFrame

\* "self.command_in_progress = True", and the lock released
Set(r) ==
    /\ requests[r].pc = "setting"
    /\ command_in_progress' = TRUE
    /\ command_lock' = NoRequest
    /\ requests' = [requests EXCEPT ![r].pc = "accepted"]
    /\ UNCHANGED <<captured_lines, pending_prompt, ioVars>>
    /\ ApiFrame

\* a plausible slip: the 400 answer is given without clearing the flag
GetJson_KeepsFlag(r) ==
    /\ requests[r].pc = "accepted"
    /\ \E body \in CommandKinds \cup {"missing", "raises"} :
         IF body \in CommandKinds
         THEN /\ requests' = [requests EXCEPT ![r].pc = "executing",
                                              ![r].command = Some(body)]
              /\ captured_lines' = <<>>
              /\ command_in_progress' = command_in_progress
         ELSE /\ requests' = [requests EXCEPT
                     ![r].pc = "done",
                     ![r].code = Some(IF body = "missing" THEN 400 ELSE 500)]
              /\ command_in_progress' = (body = "missing" /\ command_in_progress)
              /\ captured_lines' = captured_lines
    /\ UNCHANGED <<command_lock, pending_prompt, ioVars>>
    /\ ApiFrame

\* request.get_json(): a body with a 'command' field, on to _execute_command,
\* which first clears the captured output; a body without one, 400; or a body
\* that is not JSON, which raises and is answered 500 by the handler's except
GetJson(r) ==
    /\ requests[r].pc = "accepted"
    /\ \E body \in CommandKinds \cup {"missing", "raises"} :
         IF body \in CommandKinds
         THEN /\ requests' = [requests EXCEPT ![r].pc = "executing",
                                              ![r].command = Some(body)]
              /\ captured_lines' = <<>>
              /\ command_in_progress' = command_in_progress
         ELSE /\ requests' = [requests EXCEPT
                     ![r].pc = "done",
                     ![r].code = Some(IF body = "missing" THEN 400 ELSE 500)]
              /\ command_in_progress' = FALSE
              /\ captured_lines' = captured_lines
    /\ UNCHANGED <<command_lock, pending_prompt, ioVars>>
    /\ ApiFrame

\* the running command calls io.tool_output
ToolOutput(r) ==
    /\ requests[r].pc = "executing"
    /\ requests[r].command # Some("malformed")
    /\ Len(captured_lines) < MaxCaptured
    /\ captured_lines' = Append(captured_lines, "out")
    /\ UNCHANGED <<command_in_progress, command_lock, requests, pending_prompt, ioVars>>
    /\ ApiFrame

\* get_captured_output, and the CommandResult returned
Returned(req, status, output, prompt_data) ==
    [req EXCEPT !.pc = "returned", !.status = Some(status),
                !.output = output, !.prompt_data = prompt_data]

\* a plausible slip: a prompt is answered with its default
ConfirmAsk_AnswersDefault(r, question_id) ==
    /\ requests[r].pc = "executing"
    /\ requests[r].command # Some("malformed")
    /\ num_user_asks < MaxAsks
    /\ num_user_asks' = num_user_asks + 1
    /\ requests' = [requests EXCEPT
           ![r].answers = Append(@, question_id \notin never_prompts)]
    /\ UNCHANGED <<command_in_progress, command_lock, captured_lines,
                   pending_prompt, never_prompts>>
    /\ ApiFrame

\* APIIO.confirm_ask called by the running command: False for a question of
\* never_prompts; otherwise pending_prompt is set and APIPromptException
\* raised, which _execute_slash_command and _execute_chat_command pass on and
\* _execute_command turns into a needs_input result
ConfirmAsk(r, question_id) ==
    /\ requests[r].pc = "executing"
    /\ requests[r].command # Some("malformed")
    /\ num_user_asks < MaxAsks
    /\ num_user_asks' = num_user_asks + 1
    /\ IF question_id \in never_prompts
       THEN /\ requests' = [requests EXCEPT ![r].answers = Append(@, FALSE)]
            /\ UNCHANGED <<captured_lines, pending_prompt>>
       ELSE /\ pending_prompt' = Some(PromptData(question_id))
            /\ requests' = [requests EXCEPT
                   ![r] = Returned(@, "needs_input", JoinLines(captured_lines),
                                   Some(PromptData(question_id)))]
            /\ captured_lines' = <<>>
    /\ UNCHANGED <<command_in_progress, command_lock, never_prompts>>
    /\ ApiFrame

\* the command ends: commands.run returns, or run_stream is exhausted
Finish(r) ==
    /\ requests[r].pc = "executing"
    /\ requests[r].command # Some("malformed")
    /\ LET output == JoinLines(captured_lines)
           full_output ==
               IF requests[r].command = Some("slash") THEN output
               ELSE IF output # <<>>
                    THEN output \o <<NL, NL, "Assistant: ", "response">>
                    ELSE <<"Assistant: ", "response">>
       IN  requests' = [requests EXCEPT ![r] = Returned(@, "completed", full_output, None)]
    /\ captured_lines' = <<>>
    /\ UNCHANGED <<command_in_progress, command_lock, pending_prompt, ioVars>>
    /\ ApiFrame

\* the command raises an Exception: caught where it ran, or, for a command
\* that is not a string, in _execute_command
Fail(r) ==
    /\ requests[r].pc = "executing"
    /\ LET output == JoinLines(captured_lines)
           said == IF requests[r].command = Some("slash") THEN "Command failed: "
                   ELSE IF requests[r].command = Some("chat") THEN "Chat failed: "
                   ELSE "ERROR: "
       IN  requests' = [requests EXCEPT
               ![r] = Returned(@, "error", output \o <<NL, said, "e">>, None)]
    /\ captured_lines' = <<>>
    /\ UNCHANGED <<command_in_progress, command_lock, pending_prompt, ioVars>>
    /\ ApiFrame

\* "self.command_in_progress = False" after _execute_command
Clear(r) ==
    /\ requests[r].pc = "returned"
    /\ command_in_progress' = FALSE
    /\ requests' = [requests EXCEPT ![r].pc = "cleared"]
    /\ UNCHANGED <<command_lock, captured_lines, pending_prompt, ioVars>>
    /\ ApiFrame

\* the response: 500 for an error, 200 otherwise; the handler's locals are
\* gone with it
Respond(r) ==
    /\ requests[r].pc = "cleared"
    /\ requests' = [requests EXCEPT
           ![r] = [NewRequest EXCEPT
                      !.pc = "done",
                      !.code = Some(IF requests[r].status = Some("error")
                                    THEN 500 ELSE 200)]]
    /\ UNCHANGED <<command_in_progress, command_lock, captured_lines,
                   pending_prompt, ioVars>>
    /\ ApiFrame

\* one statement of the handler of request r
HandleCommandRequest(r) ==
    \/ Acquire(r)
    \/ Test(r)
    \/ Set(r)
    \/ GetJson(r)
    \/ ToolOutput(r)
    \/ \E question_id \in Questions : ConfirmAsk(r, question_id)
    \/ Finish(r)
    \/ Fail(r)
    \/ Clear(r)
    \/ Respond(r)

NextApi == \E r \in Requests : HandleCommandRequest(r)

SpecApi == InitApi /\ [][NextApi]_vars

\* every thread that can run does run
SpecApiFair == SpecApi /\ \A r \in Requests : WF_vars(HandleCommandRequest(r))

-----------------------------------------------------------------------------
(* Claims about the API server *)

\* the requests that hold the flag: they set it and have not cleared it
Holding == {r \in Requests : requests[r].pc \in {"accepted", "executing", "returned"}}

\* the requests inside "with self.command_lock"
InLock == {r \in Requests : requests[r].pc \in {"locked", "setting"}}

OneCommandAtATime ==
    /\ Cardinality({r \in Requests : requests[r].pc = "executing"}) <= 1
    /\ Cardinality(Holding) <= 1
    /\ Holding # {} => command_in_progress
    /\ \A r \in InLock : command_lock = Some(r)
    /\ \A r \in Requests :
          requests[r].code = Some(409) =>
              requests[r].command = None /\ requests[r].status = None

FlagStep ==
    /\ (~command_in_progress /\ command_in_progress') =>
          \E r \in Requests :
              /\ command_lock = Some(r)
              /\ requests[r].pc = "setting" /\ requests'[r].pc = "accepted"
    /\ \A r \in Requests :
          (requests[r].code = None /\ requests'[r].code = Some(409)) =>
              /\ requests[r].pc = "locked"
              /\ command_in_progress /\ command_in_progress'
              /\ captured_lines' = captured_lines
    /\ (command_in_progress /\ ~command_in_progress') =>
          \E r \in Holding : requests'[r].pc \in {"cleared", "done"}

\* C35 (under SpecApi): under every interleaving of the requests at most one
\* command is executed at a time: the flag is tested and set by the request
\* that holds command_lock, a request that finds it set answers 409 without
\* executing a command and without changing the flag, and the flag is cleared
\* only by the request that set it.
C35_OneCommandAtATime == []OneCommandAtATime /\ [][FlagStep]_vars

\* request 1 is executing its command and request 2 was answered 409
C35_Witness ==
    /\ requests[1].pc = "executing"
    /\ requests[2].pc = "done" /\ requests[2].code = Some(409)
    /\ command_in_progress

\* request r answers in this step, and not with 409
Answers(r) ==
    /\ requests[r].pc # "done" /\ requests'[r].pc = "done"
    /\ requests'[r].code # Some(409)

ClearedBeforeAnswerStep ==
    \A r \in Requests :
        /\ Answers(r) =>
              \/ requests[r].pc = "cleared"
              \/ requests[r].pc = "accepted" /\ ~command_in_progress'
        /\ (requests[r].pc = "returned" /\ requests'[r].pc = "cleared") =>
              ~command_in_progress'
        /\ requests'[r].pc = "cleared" =>
              requests'[r].status \in {Some("completed"), Some("error"), Some("needs_input")}

NeverAnsweredYes ==
    \A r \in Requests :
        \A k \in 1..Len(requests[r].answers) : requests[r].answers[k] = FALSE

PromptEndsCommandStep ==
    \A r \in Requests :
        /\ \A question_id \in Questions :
              ConfirmAsk(r, question_id) =>
                  IF question_id \in never_prompts
                  THEN /\ requests'[r].answers = Append(requests[r].answers, FALSE)
                       /\ requests'[r].pc = "executing"
                       /\ pending_prompt' = pending_prompt
                  ELSE /\ pending_prompt' = Some(PromptData(question_id))
                       /\ requests'[r].pc = "returned"
                       /\ requests'[r].status = Some("needs_input")
                       /\ requests'[r].prompt_data = Some(PromptData(question_id))
                       /\ requests'[r].output = JoinLines(captured_lines)
                       /\ requests'[r].answers = requests[r].answers
        /\ requests[r].pc \in {"returned", "cleared", "done"} =>
              requests'[r].pc # "executing"
        /\ (requests[r].pc = "cleared" /\ requests[r].status = Some("needs_input")
                /\ requests'[r].pc = "done") =>
              requests'[r].code = Some(200)

\* C37 (under SpecApi): in API mode no confirmation prompt is answered yes:
\* confirm_ask returns False for a question of never_prompts, and otherwise
\* records pending_prompt and raises, which ends the running command, slash
\* or chat, with status needs_input, the prompt data and the output captured
\* so far; the command is not taken up again.
C37_PromptEndsCommand == []NeverAnsweredYes /\ [][PromptEndsCommandStep]_vars

\* a chat command printed a line and then asked a question: it ended with
\* needs_input, that line as output and the prompt
C37_Witness ==
    \E r \in Requests :
        /\ requests[r].pc = "returned"
        /\ requests[r].command = Some("chat")
        /\ requests[r].status = Some("needs_input")
        /\ requests[r].output = <<"out">>
        /\ requests[r].prompt_data = Some(PromptData("Add URL to the chat?"))
        /\ pending_prompt = requests[r].prompt_data
        /\ captured_lines = <<>>

-----------------------------------------------------------------------------
\* The browser interface (gui.py).  Streamlit runs the GUI script from the
\* top on every event of the page (a submitted chat input, a clicked button)
\* and again whenever the script itself asks for it with st.rerun(); the
\* session state `state` is what survives from one run to the next.

MaxRuns == 3

\* the texts of the buttons, as the strings the handlers store
Yes == <<"y", "e", "s">>
No == <<"n", "o">>
All == <<"a", "l", "l">>
Skip == <<"s", "k", "i", "p">>
Dont == <<"d", "o", "n", "'", "t">>

\* the arguments the callers pass to confirm_ask with each question; a
\* group stands for a ConfirmGroup whose show_group is set
ConfirmArgs(question) ==
    IF question = "Add URL to the chat?"
    THEN [group |-> TRUE, explicit_yes_required |-> FALSE, allow_never |-> FALSE]
    ELSE [group |-> FALSE, explicit_yes_required |-> TRUE, allow_never |-> FALSE]

\* the user's configurations of the browser: the default one, one that asks
\* everything and one that accepts the shell commands
Preferences ==
    { [q \in Questions |-> IF q = "Add URL to the chat?" THEN "always_no" ELSE "ask"],
      [q \in Questions |-> "ask"],
      [q \in Questions |-> IF q = "Add URL to the chat?" THEN "ask" ELSE "always_yes"] }

get_prompt_preference(question) == prompt_preferences[question]

\* the commands a user submits: a slash command or a chat message, with the
\* questions its execution asks, in order
Prompts ==
    { [slash |-> s, questions |-> qs] :
        s \in BOOLEAN,
        qs \in { <<"Run shell command?">>,
                 <<"Add URL to the chat?", "Run shell command?">> } }

is_command(prompt) == prompt.slash

BrowserPromptData(question) ==
    LET args == ConfirmArgs(question)
    IN  [question |-> question,
         default |-> "y",
         explicit_yes_required |-> args.explicit_yes_required,
         group |-> args.group,
         allow_never |-> args.allow_never \/ args.group]

\* the part of the interface a command works on
Gui ==
    [state |-> state, never_prompts |-> never_prompts,
     num_user_asks |-> num_user_asks, asks |-> asks, runs |-> runs]

\* one call of confirm_ask, as the log `asks` keeps it
Asked(g, question, returned, after) ==
    [question |-> question,
     never |-> question \in g.never_prompts,
     preference |-> get_prompt_preference(question),
     stored |-> g.state.confirmation_response,
     returned |-> returned,
     left |-> after.state.confirmation_response,
     pending |-> after.state.pending_confirmation]

Counted(g) == [g EXCEPT !.num_user_asks = @ + 1]

\* a plausible slip: the stored response is read and left in place
BrowserConfirmAsk_KeepsResponse(g, question) ==
    LET c == Counted(g)
        preference == get_prompt_preference(question)
        response == g.state.confirmation_response
        raised == [c EXCEPT !.state.pending_confirmation =
                                Some(BrowserPromptData(question))]
    IN  IF question \in g.never_prompts THEN [g |-> c, returned |-> Some(FALSE)]
        ELSE IF preference = "always_yes" THEN [g |-> c, returned |-> Some(TRUE)]
        ELSE IF preference = "always_no" THEN [g |-> c, returned |-> Some(FALSE)]
        ELSE IF response # None /\ response[1] # <<>>
        THEN [g |-> c, returned |-> Some(StartsWith(response[1], <<"y">>)
                                         \/ StartsWith(response[1], <<"a">>))]
        ELSE [g |-> raised, returned |-> None]

\* BrowserIO.confirm_ask: the value returned, None when it raises
\* BrowserPromptException
BrowserConfirmAsk(g, question) ==
    LET c == Counted(g)
        preference == get_prompt_preference(question)
        stored == g.state.confirmation_response
        response == stored[1]
        cleared == [c EXCEPT !.state.confirmation_response = None]
        raised == [c EXCEPT !.state.pending_confirmation =
                                Some(BrowserPromptData(question))]
    IN  IF question \in g.never_prompts THEN [g |-> c, returned |-> Some(FALSE)]
        ELSE IF preference = "always_yes" THEN [g |-> c, returned |-> Some(TRUE)]
        ELSE IF preference = "always_no" THEN [g |-> c, returned |-> Some(FALSE)]
        ELSE IF stored # None /\ response # <<>>
        THEN IF StartsWith(response, <<"y">>) THEN [g |-> cleared, returned |-> Some(TRUE)]
             ELSE IF StartsWith(response, <<"n">>) THEN [g |-> cleared, returned |-> Some(FALSE)]
             ELSE IF StartsWith(response, <<"a">>) THEN [g |-> cleared, returned |-> Some(TRUE)]
             ELSE IF StartsWith(response, <<"s">>) THEN [g |-> cleared, returned |-> Some(FALSE)]
             ELSE IF StartsWith(response, <<"d">>)
             THEN [g |-> [cleared EXCEPT !.never_prompts = @ \cup {question}],
                   returned |-> Some(FALSE)]
             ELSE [g |-> cleared, returned |-> Some(TRUE)]
        ELSE [g |-> raised, returned |-> None]

\* the execution of a command from its question k on: it asks its questions
\* one after the other and stops at the one that raises
RECURSIVE RunFrom(_, _, _)
RunFrom(g, prompt, k) ==
    IF k > Len(prompt.questions)
    THEN [g |-> [g EXCEPT !.runs = Append(@, [prompt |-> prompt, raised |-> FALSE])],
          raised |-> FALSE]
    ELSE LET question == prompt.questions[k]
             a == BrowserConfirmAsk(g, question)
             logged == [a.g EXCEPT !.asks =
                            Append(@, Asked(g, question, a.returned, a.g))]
         IN  IF a.returned = None
             THEN [g |-> [logged EXCEPT !.runs =
                              Append(@, [prompt |-> prompt, raised |-> TRUE])],
                   raised |-> TRUE]
             ELSE RunFrom(logged, prompt, k + 1)

Rerun(g) == [g EXCEPT !.state.rerun = TRUE]

\* GUI.handle_command: the exception is passed over, and the command that
\* left a confirmation pending returns without a rerun
handle_command(g, prompt) ==
    LET e == RunFrom(g, prompt, 1)
    IN  IF e.g.state.pending_confirmation # None THEN e.g ELSE Rerun(e.g)

\* GUI.process_chat; `handled` is command_handled
process_chat(g) ==
    LET prompt == g.state.prompt[1]
        taken == [g EXCEPT !.state.prompt = None]
    IN  IF is_command(prompt)
        THEN [g |-> handle_command(taken, prompt), handled |-> TRUE]
        ELSE LET e == RunFrom(taken, prompt, 1)
             IN  IF e.raised
                 THEN [g |-> Rerun([e.g EXCEPT !.state.pending_command =
                                       Some([type |-> "chat", prompt |-> prompt])]),
                       handled |-> FALSE]
                 ELSE [g |-> Rerun(e.g), handled |-> FALSE]

\* GUI._resume_after_confirmation
resume_after_confirmation(g) ==
    IF g.state.pending_command # None
    THEN LET pending_cmd == g.state.pending_command[1]
             cleared == [g EXCEPT !.state.pending_command = None]
         IN  IF pending_cmd.type = "slash_command"
             THEN Rerun(handle_command(cleared, pending_cmd.prompt))
             ELSE IF pending_cmd.type = "chat"
             THEN Rerun([cleared EXCEPT !.state.prompt = Some(pending_cmd.prompt)])
             ELSE Rerun(cleared)
    ELSE Rerun(g)

\* the buttons do_confirmation_prompt shows for a pending confirmation
Buttons(prompt_data) ==
    {Yes, No}
      \cup (IF prompt_data.group /\ ~prompt_data.explicit_yes_required
            THEN {All} ELSE {})
      \cup (IF prompt_data.group THEN {Skip} ELSE {})
      \cup (IF prompt_data.allow_never THEN {Dont} ELSE {})

\* one run of the script, GUI.__init__: `click` is the button pressed in
\* this run and `user_inp` the chat input submitted in it, None for none
ScriptRun(g, click, user_inp) ==
    IF g.state.pending_confirmation # None /\ click # None
    THEN resume_after_confirmation(
             [g EXCEPT !.state.confirmation_response = click,
                       !.state.pending_confirmation = None])
    ELSE LET input_disabled == g.state.pending_confirmation # None
             prompt == IF user_inp # None /\ ~input_disabled THEN user_inp ELSE None
         IN  IF /\ ~input_disabled
                /\ g.state.confirmation_response # None
                /\ g.state.pending_command # None
             THEN resume_after_confirmation(g)
             ELSE LET p == IF g.state.prompt # None /\ ~input_disabled
                           THEN process_chat(g)
                           ELSE [g |-> g, handled |-> FALSE]
                  IN  IF p.g.state.rerun THEN p.g
                      ELSE IF prompt = None \/ p.handled THEN p.g
                      ELSE Rerun([p.g EXCEPT !.state.prompt = prompt])

InitGui ==
    /\ PipelineOff
    /\ spc = "off" /\ chat_files = <<>> /\ fence = DefaultFence
    /\ lines = <<>> /\ scan = ScanInit
    /\ command_in_progress = FALSE
    /\ command_lock = NoRequest
    /\ requests = <<>>
    /\ captured_lines = <<>>
    /\ pending_prompt = None
    /\ never_prompts = {}
    /\ num_user_asks = 0
    /\ state = [prompt |-> None, pending_confirmation |-> None,
                confirmation_response |-> None, pending_command |-> None,
                rerun |-> FALSE]
    /\ prompt_preferences \in Preferences
    /\ asks = <<>> /\ runs = <<>> /\ clicks = 0

GuiFrame ==
    UNCHANGED <<registryVars, batchVars, scanVars, apiVars, prompt_preferences>>

Becomes(g) ==
    /\ state' = g.state
    /\ never_prompts' = g.never_prompts
    /\ num_user_asks' = g.num_user_asks
    /\ asks' = g.asks
    /\ runs' = g.runs

\* the user submits a chat input; the input box is disabled while a
\* confirmation is pending
Submit(user_inp) ==
    /\ ~state.rerun
    /\ state.pending_confirmation = None
    /\ Len(runs) < MaxRuns
    /\ Becomes(ScriptRun(Gui, None, Some(user_inp)))
    /\ UNCHANGED clicks
    /\ GuiFrame

\* the user presses one of the buttons of the pending confirmation
Click(response) ==
    /\ ~state.rerun
    /\ state.pending_confirmation # None
    /\ response \in Buttons(state.pending_confirmation[1])
    /\ clicks' = clicks + 1
    /\ Becomes(ScriptRun(Gui, Some(response), None))
    /\ GuiFrame

\* the run the script asked for with st.rerun()
Rerender ==
    /\ state.rerun
    /\ state.prompt # None => Len(runs) < MaxRuns
    /\ Becomes(ScriptRun([Gui EXCEPT !.state.rerun = FALSE], None, None))
    /\ UNCHANGED clicks
    /\ GuiFrame

NextGui ==
    \/ \E user_inp \in Prompts : Submit(user_inp)
    \/ \E response \in {Yes, No, All, Skip, Dont} : Click(response)
    \/ Rerender

SpecGui == InitGui /\ [][NextGui]_vars


-----------------------------------------------------------------------------
\* Claims about the browser interface.

\* the calls of confirm_ask that took their answer from a stored response
FromResponse == { i \in 1..Len(asks) : asks[i].stored # asks[i].left }

\* the order in which one call of confirm_ask decides
DecidedInOrder(a) ==
    IF a.never
    THEN a.returned = Some(FALSE) /\ a.left = a.stored
    ELSE IF a.preference = "always_yes"
    THEN a.returned = Some(TRUE) /\ a.left = a.stored
    ELSE IF a.preference = "always_no"
    THEN a.returned = Some(FALSE) /\ a.left = a.stored
    ELSE IF a.stored # None
    THEN a.returned # None /\ a.left = None
    ELSE /\ a.returned = None
         /\ a.left = None
         /\ a.pending = Some(BrowserPromptData(a.question))

\* C38: every call of BrowserIO.confirm_ask decides in the order
\* never_prompts, configured preference, stored response, prompt: False for
\* a question of never_prompts; True or False for a preference always_yes
\* or always_no, the stored response left as it was; otherwise a stored
\* response is returned and set to None by that call; otherwise
\* pending_confirmation is set and the call raises.  The calls answered by
\* a response are never more than the buttons the user pressed.
C38_ConfirmAskOrder ==
    /\ \A i \in 1..Len(asks) : DecidedInOrder(asks[i])
    /\ Cardinality(FromResponse) <= clicks
    /\ num_user_asks = Len(asks)

\* a re-run in which a preference decided one question with the response
\* still stored, the next question consumed it, and a later call raised
C38_Witness ==
    \E i, j, k \in 1..Len(asks) :
        /\ i < j /\ j < k
        /\ asks[i].preference = "always_no" /\ asks[i].stored = Some(Yes)
        /\ asks[i].left = Some(Yes)
        /\ asks[j].preference = "ask" /\ asks[j].stored = Some(Yes)
        /\ asks[j].left = None /\ asks[j].returned = Some(TRUE)
        /\ asks[k].returned = None /\ asks[k].pending # None
        /\ clicks = 1

LastRun == runs[Len(runs)]

\* what C39 asks of one step of the interface
ResumedStep ==
    /\ (Len(runs') = Len(runs) + 1 /\ runs'[Len(runs')].raised)
         => /\ state'.pending_confirmation # None
            /\ state'.pending_command # None
            /\ state'.pending_command[1].prompt = runs'[Len(runs')].prompt
    /\ state.pending_confirmation # None => runs' = runs
    /\ clicks' = clicks + 1
         => /\ state'.pending_command = None
            /\ state'.confirmation_response # None
            /\ state'.prompt = Some(LastRun.prompt)
    /\ (state.confirmation_response # None /\ runs' # runs)
         => /\ runs' = Append(runs, runs'[Len(runs')])
            /\ state.prompt = Some(runs'[Len(runs')].prompt)
            /\ state'.prompt = None
            /\ \E i \in (Len(asks) + 1)..Len(asks') :
                   /\ asks'[i].stored = state.confirmation_response
                   /\ asks'[i].left = None

\* C39: a command interrupted by a confirmation prompt, chat message or
\* slash command, is stored as pending_command when the prompt is raised;
\* no command is run while pending_confirmation is set; the user's answer
\* clears the pending command and queues it again, and it is re-run once,
\* a call of that run consuming the stored response.
C39_ResumedAfterPrompt == [][ResumedStep]_vars


=============================================================================
